---- MODULE Spec2Model ----
(***************************************************************************)
(* Model of the mention-monitoring and alerting engine.                    *)
(*                                                                         *)
(*   - MentionMonitoringService and RateLimitManager                       *)
(*     (services/mentionMonitoringService.js, kept as src/unnamed/part_004)*)
(*   - AlertService (src/src/services/alertService.js)                     *)
(*                                                                         *)
(* Times are milliseconds as returned by Date.now().  A JavaScript value   *)
(* that is either null or a number is modelled as a set with at most one   *)
(* element: {} is null, {t} is the number t.                               *)
(*                                                                         *)
(* The event loop is modelled at the level of macrotasks: a timer          *)
(* callback, the completion of a network call and a call into the public   *)
(* API each run to their first await, and the continuations that follow an *)
(* await of an already settled promise (microtasks) run before the next    *)
(* timer or network completion is taken.                                   *)
(***************************************************************************)
EXTENDS Integers, Sequences, FiniteSets, TLC

VARIABLES
    now,              \* Date.now()
    nextTick,         \* when the setInterval callback of startProcessingLoop is due
    activeMonitors,   \* MentionMonitoringService.activeMonitors (id -> monitor)
    monitoringQueue,  \* MentionMonitoringService.monitoringQueue
    isProcessing,     \* MentionMonitoringService.isProcessing
    passes,           \* the processMonitor calls of the batch in progress
    pending,          \* continuations of API calls waiting behind an await
    storage,          \* localStorage entries monitor_<id>
    calls,            \* number of calls of the public API made so far
    rateLimits,       \* RateLimitManager.rateLimits
    dec,              \* history: the last deciding step of the batch in progress
    lastCall,         \* history: the last canMakeRequest call and its result
    alerts,           \* AlertService.alerts (id -> alert)
    alertMonitors,    \* AlertService.activeMonitors (id -> when its interval is due)
    alertChecks,      \* the checkAlert calls in progress
    requestsRemaining, \* api_rate_limits.requests_remaining of twitter/search
    resetTime,        \* api_rate_limits.reset_time of twitter/search
    invocations,      \* edge-function calls between their read and their write
    searchesIssued,   \* history: search requests sent to Twitter by edge functions
    decrements,       \* history: edge-function calls that wrote the row back
    notifications,    \* the notification objects of AlertService (id -> fields)
    notificationQueue, \* AlertService.notificationQueue (ids of notifications)
    notifier,         \* AlertService.isProcessing and the position of its loop
    lastWebhook,      \* history: the last webhook POST and what became of it
    lastDispatch,     \* history: the last sendAlerts call of the monitoring service
    twitterMentions,  \* the rows of the table twitter_mentions
    lastIngested,     \* history: tweet id -> the fields it was last ingested with
    monitorData,      \* mentions of a monitor: results of the pass, data, stats
    texts,            \* the tweets of a sample and what the classifier says of each
    sentimentResults, \* the last result of batchAnalyzeSentiment
    analysis,         \* the last aggregate computed from the sample
    data,             \* monitor.data of one monitor: its four histories
    passInput,        \* what every pass of that monitor finds
    passCount,        \* the passes of that monitor so far (their timestamps)
    filterCase,       \* a monitor's filter configuration and a search response
    scored,           \* the mentions of that response the pass scores
    monitoring,       \* MonitoringService: its flag, its interval, the timers
    worker,           \* the service worker and the messages posted to it
    jobs              \* the monitoring_jobs rows and the run that writes them

vars == <<now, nextTick, activeMonitors, monitoringQueue, isProcessing, passes,
          pending, storage, calls, rateLimits, dec, lastCall,
          alerts, alertMonitors, alertChecks,
          requestsRemaining, resetTime, invocations, searchesIssued, decrements,
          notifications, notificationQueue, notifier, lastWebhook, lastDispatch,
          twitterMentions, lastIngested, monitorData,
          texts, sentimentResults, analysis,
          data, passInput, passCount, filterCase, scored,
          monitoring, worker, jobs>>

monitorVars == <<nextTick, activeMonitors, monitoringQueue, isProcessing, passes,
                 pending, storage, calls, dec>>

alertVars == <<alerts, alertMonitors, alertChecks>>

edgeVars == <<requestsRemaining, resetTime, invocations, searchesIssued,
              decrements>>

notifyVars == <<notifications, notificationQueue, notifier, lastWebhook,
                lastDispatch>>

\* the variables of the notification delivery and of the sentiment functions
mentionVars == <<twitterMentions, lastIngested, monitorData>>

sentimentVars == <<texts, sentimentResults, analysis>>

historyVars == <<data, passInput, passCount>>

\* the variables of the histories, of the filters, of MonitoringService, of
\* the service worker and of the periodic job
filterVars == <<filterCase, scored>>

restVars == <<historyVars, filterVars, monitoring, worker, jobs>>

\* the variables of the sections before those
coreVars == <<now, rateLimits, monitorVars, lastCall, alertVars, edgeVars,
              notifyVars, mentionVars, sentimentVars>>

extraVars == <<notifyVars, mentionVars, sentimentVars, restVars>>

----------------------------------------------------------------------------
(* Bounds of the model *)

\* Date.now() when the services are constructed
Epoch == 1000000

\* the rate-limiter runs are explored up to Epoch + RLHorizon
RLHorizon == 2000000

\* clock advances between two canMakeRequest calls
RLDurations == {450000, 900000}

\* request costs offered to canMakeRequest (processMonitor passes
\* monitor.keywords.length, which is never negative)
RLCosts == {0, 1, 100, 150, 301}

Services == {"twitter", "coingecko"}

\* monitor ids that createMonitor and importMonitors can use
NumMonitors == 2

MonitorIds == 1 .. NumMonitors

\* calls of the public API (create, import, update, toggle, delete) in a run
MaxCalls == 3

\* continuations of API calls that wait at the same time
MaxPending == 1

\* the monitoring service is explored up to Epoch + Horizon when the public
\* API is called, and up to Epoch + LongHorizon when it is left to run
Horizon == 60000

LongHorizon == 340000

\* clock advances between two events of the service left to run; the
\* delay(1000) between two keyword fetches is below this resolution.  When the
\* public API is called the clock advances by whole scheduler periods.
Durations == {10000}

\* number of filtered mentions that one keyword fetch contributes
FetchCounts == {0, 60}

\* average_sentiment values returned by analyzeMentionsSentiment, in tenths
SentimentValues == {2, 8}

\* monitors found in localStorage when the service is constructed with a
\* queue longer than a batch, and how far that service is explored
NumStored == 6

BatchHorizon == 60000

\* how far the service is explored when fetches fail and deciding throws, and
\* the numbers of filtered mentions that one keyword fetch contributes there
FailHorizon == 60000

FailCounts == {0, 73, 130}

\* requests_remaining of the twitter/search row when the exploration of the
\* edge functions starts, the calls that run at the same time and the search
\* requests of a run
EdgeBudget == 3

MaxInvocations == 2

MaxSearches == 6

\* the notifications that triggerAlert creates in a run
MaxNotifications == 2

\* the alerts and the webhooks of a monitor that sendAlerts is called with
MaxFired == 2

MaxWebhooks == 2

\* the channels of a notification and the answers of a webhook endpoint: an
\* HTTP status, or 0 when fetch rejects (the endpoint cannot be reached)
Channels == {"console", "webhook", "browser"}

WebhookStatuses == {0, 200, 404, 500}

\* what a delivery finds: whether the alert of the notification is still in
\* the map, whether its config has a webhookUrl, Notification.permission, and
\* what requestPermission() resolves to when it is asked
Circumstances ==
    [alert : BOOLEAN, webhookUrl : BOOLEAN,
     permission : {"granted", "default", "denied"},
     answer : {"granted", "denied"}]

\* the tweets that a search can return, the versions of their fields
\* (public_metrics change between two searches) and the mentions that the
\* stats of a monitor count in a run
NumTweets == 2

TweetIds == 1..NumTweets

FieldVersions == {1, 2}

MaxTotal == 4

\* the tweets of a sample: the longest sample, the scores (in hundredths)
\* that the classifier may add to its answer and the engagement of a tweet
MaxTexts == 2

ClassifierScores == {{}, {20}, {70}}

Engagements == {0, 999}

\* the passes of the monitor whose histories are followed, and what a pass
\* may find: its mentions, its alerts, and whether every pass or every
\* second pass has a sentiment result
MaxPasses == 104

PassInputs ==
    [mentions : {10, 50, 70}, alerts : {0, 2}, sentimentEvery : {1, 2}]

\* the tweets of a search response
MaxTweets == 2

\* a tweet of the API response with its author: the author's followers, the
\* likes of the tweet (its other metrics are 0), whether its text starts
\* with 'RT @', and its language
RawTweets ==
    [followers_count : {10, 5420}, like_count : {2, 89},
     retweet : BOOLEAN, lang : {"en", "de"}]

\* the filters given to createMonitor; {} is a filter that is not given
FilterConfigs ==
    [minFollowers : {{}, {1000}}, minEngagement : {{}, {50}},
     excludeRetweets : {{}, {TRUE}},
     languages : {{}, {{}}, {{"en", "fr"}}}]

\* the calls of startMonitoring that go past its guard, and the monitoring
\* cycles that the intervals start
MaxStarts == 3

MaxCycles == 3

\* the monitors of the main thread when it sets up the service worker, and
\* the times it does so (once per load of the page)
NumWorkerMonitors == 3

MaxPosts == 2

\* the configurations that a run of periodic-monitoring finds due, and the
\* runs
NumConfigs == 2

MaxRuns == 2

\* how long the clock of the edge functions runs, in ms after Epoch
EdgeHorizon == 1800000

\* alert ids that createAlert can generate
NumAlerts == 2

AlertIds == 1 .. NumAlerts

\* checkAlert calls in progress at the same time
MaxChecks == 2

\* the alert service is explored up to Epoch + AlertHorizon
AlertHorizon == 180000

\* the fields of the configurations offered to createAlert and updateAlert:
\* type ("" is none), threshold and direction
ConfigTypes == {"", "new_mention", "sentiment_change", "influencer_mention"}

ThresholdInputs == {"undefined", "0", "10", "abc"}

Directions == {"any", "sideways"}

\* alert types offered to createAlert: new_mention awaits one search,
\* volume_spike two
AlertTypes == {"new_mention", "volume_spike"}

----------------------------------------------------------------------------
(* RateLimitManager *)

resetInterval == 900000

TwitterRequests == 300

TwitterWindow == 900000

\* constructor(): this.rateLimits
RateLimitInit(t) ==
    [twitter |-> [requests  |-> TwitterRequests,
                  window    |-> TwitterWindow,
                  current   |-> 0,
                  resetTime |-> t + resetInterval]]

\* WindowCheck with the reset of the used count left out
WindowCheck_KeepsCount(limit, t) ==
    IF t > limit.resetTime
    THEN [limit EXCEPT !.resetTime = t + limit.window]
    ELSE limit

\* the window check of canMakeRequest: "Reset if window expired"
WindowCheck(limit, t) ==
    IF t > limit.resetTime
    THEN [limit EXCEPT !.current = 0, !.resetTime = t + limit.window]
    ELSE limit

\* BudgetOk that compares the used count alone, without the requested cost
BudgetOk_IgnoresCost(limit, requestCount) ==
    limit.current <= limit.requests

\* the budget check of canMakeRequest, on the limit left by the window check
BudgetOk(limit, requestCount) ==
    limit.current + requestCount <= limit.requests

\* canMakeRequest(service, requestCount) called at time t on the limits rl:
\* the returned value and the limits it leaves
CanMakeRequest(rl, service, requestCount, t) ==
    IF service \notin DOMAIN rl
    THEN [ok |-> TRUE, limits |-> rl]
    ELSE LET limit == WindowCheck(rl[service], t)
         IN  IF BudgetOk(limit, requestCount)
             THEN [ok     |-> TRUE,
                   limits |-> [rl EXCEPT ![service] =
                                 [limit EXCEPT !.current = limit.current + requestCount]]]
             ELSE [ok |-> FALSE, limits |-> [rl EXCEPT ![service] = limit]]

NoCall == [service |-> "none", cost |-> 0, at |-> 0, ok |-> FALSE,
           pre |-> RateLimitInit(0)]

----------------------------------------------------------------------------
(* MentionMonitoringService: configuration and data *)

processingInterval == 30000

batchSize == 5

alertCooldown == 300000

\* alertThresholds.mentionSpike of createMonitor
mentionSpike == 50

\* alertThresholds.sentimentChange of createMonitor (0.3), in tenths
sentimentChange == 3

\* keywords.length of the configurations offered to createMonitor; the last
\* one asks for more requests than a whole window allows
KeywordCounts == {1, TwitterRequests + 1}

MonitorConfigs == [nKeywords : KeywordCounts, isActive : BOOLEAN]

\* the configuration of the monitors of an import file
ImportConfig == [nKeywords |-> 1, isActive |-> TRUE]

\* monitor.stats of createMonitor.  hFire and hSup are history fields, not
\* part of the JavaScript object: the timestamp of the last pass that fired,
\* and the time of the last deciding step since then that the cooldown
\* suppressed although a condition was true
FreshStats ==
    [lastAlert |-> {}, lastProcessed |-> {}, avgSentiment |-> 0,
     hFire |-> {}, hSup |-> {}]

\* the monitor object built by createMonitor
NewMonitor(cfg) ==
    [isActive |-> cfg.isActive, nKeywords |-> cfg.nKeywords, stats |-> FreshStats]

\* Map.set / localStorage.setItem
Put(m, k, v) == [x \in (DOMAIN m) \cup {k} |-> IF x = k THEN v ELSE m[x]]

\* Map.delete / localStorage.removeItem
Remove(m, k) == [x \in (DOMAIN m) \ {k} |-> m[x]]

Range(q) == {q[i] : i \in DOMAIN q}

\* addToProcessingQueue without the includes test
addToProcessingQueue_NoCheck(q, monitorId) == Append(q, monitorId)

\* addToProcessingQueue
addToProcessingQueue(q, monitorId) ==
    IF monitorId \in Range(q) THEN q ELSE Append(q, monitorId)

\* removeFromProcessingQueue: indexOf and splice(index, 1)
removeFromProcessingQueue(q, monitorId) ==
    IF monitorId \notin Range(q)
    THEN q
    ELSE LET index == CHOOSE i \in DOMAIN q :
                         q[i] = monitorId /\ \A j \in 1 .. (i - 1) : q[j] # monitorId
         IN  SubSeq(q, 1, index - 1) \o SubSeq(q, index + 1, Len(q))

\* BatchOf that takes the whole queue
BatchOf_WholeQueue(q) == q

\* monitoringQueue.splice(0, batchSize): the batch and what stays queued
BatchOf(q) == SubSeq(q, 1, IF Len(q) < batchSize THEN Len(q) ELSE batchSize)

RestOf(q) == SubSeq(q, (IF Len(q) < batchSize THEN Len(q) ELSE batchSize) + 1, Len(q))

----------------------------------------------------------------------------
(* processMonitor *)

\* a processMonitor call that returned
DonePass(monitorId, outcome, reserved, kw, nAlerts) ==
    [id |-> monitorId, pc |-> "done", outcome |-> outcome, reserved |-> reserved,
     kw |-> kw, ts |-> 0, nKeywords |-> 0, volume |-> 0, infl |-> FALSE,
     unavail |-> FALSE, orphan |-> FALSE, own |-> FreshStats, alerts |-> nAlerts]

\* the ~5 minutes after which the specification takes a monitor to be due
DueInterval == 10 * processingInterval

\* PassMayStart that also waits until the monitor is due again
PassMayStart_WhenDue(mons, monitorId) ==
    /\ monitorId \in DOMAIN mons
    /\ mons[monitorId].isActive
    /\ \A l \in mons[monitorId].stats.lastProcessed : now - l >= DueInterval

\* whether processMonitor goes on after looking up the monitor
PassMayStart(mons, monitorId) ==
    /\ monitorId \in DOMAIN mons
    /\ mons[monitorId].isActive

\* StartPass that goes on to fetch when the reservation is denied
StartPass_IgnoresDenial(mons, rl, monitorId, t) ==
    IF ~PassMayStart(mons, monitorId)
    THEN [pass |-> DonePass(monitorId, "skipped", 0, 0, 0), limits |-> rl]
    ELSE LET r == CanMakeRequest(rl, "twitter", mons[monitorId].nKeywords, t)
         IN  [pass |-> [id |-> monitorId, pc |-> "fetch", outcome |-> "running",
                        reserved |-> IF r.ok THEN mons[monitorId].nKeywords ELSE 0,
                        kw |-> 1, ts |-> t, nKeywords |-> mons[monitorId].nKeywords,
                        volume |-> 0, infl |-> FALSE, unavail |-> FALSE,
                        orphan |-> FALSE, own |-> FreshStats, alerts |-> 0],
              limits |-> r.limits]

\* processMonitor(monitorId) up to its first fetch, called at time t: the
\* pass it leaves (null returned: outcome skipped or denied) and the limits.
\* A running pass holds the monitor object it looked up: nKeywords is the
\* keywords of that object, which has isActive = true.  unavail is a history
\* field: a fetch of the pass met a provider error.
StartPass(mons, rl, monitorId, t) ==
    IF ~PassMayStart(mons, monitorId)
    THEN [pass |-> DonePass(monitorId, "skipped", 0, 0, 0), limits |-> rl]
    ELSE LET r == CanMakeRequest(rl, "twitter", mons[monitorId].nKeywords, t)
         IN  IF ~r.ok
             THEN [pass |-> DonePass(monitorId, "denied", 0, 0, 0), limits |-> r.limits]
             ELSE [pass |-> [id |-> monitorId, pc |-> "fetch", outcome |-> "running",
                             reserved |-> mons[monitorId].nKeywords, kw |-> 1,
                             ts |-> t, nKeywords |-> mons[monitorId].nKeywords,
                             volume |-> 0, infl |-> FALSE, unavail |-> FALSE,
                             orphan |-> FALSE, own |-> FreshStats, alerts |-> 0],
                   limits |-> r.limits]

RECURSIVE StartBatch(_, _, _, _)
\* batch.map(monitorId => this.processMonitor(monitorId)): the calls run one
\* after the other up to their first fetch
StartBatch(mons, rl, batch, t) ==
    IF batch = <<>>
    THEN [passes |-> <<>>, limits |-> rl]
    ELSE LET s    == StartPass(mons, rl, Head(batch), t)
             rest == StartBatch(mons, s.limits, Tail(batch), t)
         IN  [passes |-> <<s.pass>> \o rest.passes, limits |-> rest.limits]

Abs(x) == IF x < 0 THEN 0 - x ELSE x

\* the alert conditions of checkAlertConditions that are true for the
\* results of a pass, whatever the cooldown says
Conditions(stats, p, sentiment) ==
    {c \in {"mention_spike", "sentiment_change", "influencer_mention"} :
        \/ c = "mention_spike" /\ p.volume > mentionSpike
        \/ c = "sentiment_change"
             /\ stats.avgSentiment # 0
             /\ \E s \in sentiment : Abs(s - stats.avgSentiment) > sentimentChange
        \/ c = "influencer_mention" /\ p.infl}

\* the severity of the mention_spike alert that checkAlertConditions pushes
SpikeSeverity(volume, threshold) == "high"

\* "Check if we're in cooldown period"
InCooldown(stats, t) ==
    \E la \in stats.lastAlert : la # 0 /\ (t - la) < alertCooldown

\* checkAlertConditions without the cooldown test
checkAlertConditions_NoCooldown(stats, p, sentiment, t) ==
    Conditions(stats, p, sentiment)

\* checkAlertConditions(monitor, results) at time t: the types of the alerts
checkAlertConditions(stats, p, sentiment, t) ==
    IF InCooldown(stats, t) THEN {} ELSE Conditions(stats, p, sentiment)

\* LastAlertAfter that notes every pass, fired or not
LastAlertAfter_EveryPass(stats, p, fired) == {p.ts}

\* the lastAlert that updateMonitorData leaves
LastAlertAfter(stats, p, fired) ==
    IF fired # {} THEN {p.ts} ELSE stats.lastAlert

\* updateMonitorData(monitor, results): the stats it leaves
updateMonitorData(stats, p, sentiment, fired, t) ==
    [lastAlert     |-> LastAlertAfter(stats, p, fired),
     lastProcessed |-> {p.ts},
     avgSentiment  |-> IF sentiment # {} THEN CHOOSE s \in sentiment : TRUE
                                         ELSE stats.avgSentiment,
     hFire         |-> IF fired # {} THEN {p.ts} ELSE stats.hFire,
     hSup          |-> IF fired # {} THEN {}
                       ELSE IF Conditions(stats, p, sentiment) # {} THEN {t}
                       ELSE stats.hSup]

NoDecision ==
    [id |-> 0, at |-> 0, ts |-> 0, n |-> 0, qual |-> 0, live |-> FALSE,
     volume |-> 0, spike |-> "none", unavail |-> FALSE, startTime |-> {},
     prevFire |-> {}, prevSup |-> {}, prevProcessed |-> {}, prevAlert |-> {}]

----------------------------------------------------------------------------
(* The rate limiter on its own: any sequence of canMakeRequest calls *)

MonitorInit ==
    /\ nextTick = Epoch + processingInterval
    /\ activeMonitors = <<>>
    /\ monitoringQueue = <<>>
    /\ isProcessing = FALSE
    /\ passes = <<>>
    /\ pending = <<>>
    /\ storage = <<>>
    /\ calls = 0
    /\ dec = NoDecision

AlertInit ==
    /\ alerts = <<>>
    /\ alertMonitors = <<>>
    /\ alertChecks = <<>>

\* the window of the twitter/search row: 15 minutes, in ms
EdgeWindow == 15 * 60 * 1000

\* the row of api_rate_limits with EdgeBudget requests left, no edge function
\* running
EdgeInit ==
    /\ requestsRemaining = EdgeBudget
    /\ resetTime = Epoch + EdgeWindow
    /\ invocations = <<>>
    /\ searchesIssued = 0
    /\ decrements = 0

\* no notification was created, the notification loop is idle, nothing was
\* sent to a webhook
NotifyInit ==
    /\ notifications = <<>>
    /\ notificationQueue = <<>>
    /\ notifier = [isProcessing |-> FALSE, pc |-> "idle", id |-> 0]
    /\ lastWebhook = [path |-> "none", status |-> 0, outcome |-> "none"]
    /\ lastDispatch = [alerts |-> 0, webhooks |-> 0, posts |-> 0]

\* the table twitter_mentions is empty; the monitor has fetched nothing
MentionInit ==
    /\ twitterMentions = {}
    /\ lastIngested = [id \in TweetIds |-> 0]
    /\ monitorData = [mentions |-> <<>>, volume |-> 0, recentMentions |-> <<>>,
                      totalMentions |-> 0, seen |-> {}]

NoDistribution == [positive |-> 0, negative |-> 0, neutral |-> 0]

NoAnalysis ==
    [fn |-> "none", average |-> <<0, 1>>, score |-> {}, confidence |-> 0,
     distribution |-> NoDistribution]

\* nothing was analysed
SentimentInit ==
    /\ texts = <<>>
    /\ sentimentResults = [version |-> "none", results |-> <<>>]
    /\ analysis = NoAnalysis

NoInput == [mentions |-> 0, alerts |-> 0, sentimentEvery |-> 1]

\* the histories of a new monitor
HistoryInit ==
    /\ data = [recentMentions |-> <<>>, sentimentHistory |-> <<>>,
               volumeHistory |-> <<>>, alertHistory |-> <<>>]
    /\ passInput = NoInput
    /\ passCount = 0

\* no search response yet
FilterInit ==
    /\ filterCase = [cfg |-> [minFollowers |-> {}, minEngagement |-> {},
                              excludeRetweets |-> {}, languages |-> {}],
                     tweets |-> <<>>]
    /\ scored = [done |-> FALSE, mentions |-> <<>>, volume |-> 0]

\* MonitoringService after its constructor: not monitoring, no interval;
\* timers are the intervals that exist, starting the calls of
\* startMonitoring that await their first cycle
MonitoringInit ==
    monitoring = [isMonitoring |-> FALSE, monitoringIntervalId |-> 0,
                  timers |-> {}, intervals |-> 0, starting |-> 0,
                  started |-> 0, cycles |-> 0,
                  lastCycle |-> "none"]

\* the service worker after its script has run: no monitors; monitors are
\* the monitors of the main thread, inbox the messages posted to the worker
\* and not handled yet
WorkerInit ==
    worker = [monitors |-> <<>>, inbox |-> <<>>, activeMonitors |-> <<>>,
              posted |-> 0, handled |-> 0, errors |-> 0]

\* the table monitoring_jobs is empty and periodic-monitoring is not running;
\* rows are the statuses of the job records, job the record of the
\* configuration in progress, left the configurations of the run that are
\* not finished
JobsInit ==
    jobs = [rows |-> <<>>, pc |-> "idle", job |-> 0, left |-> 0, runs |-> 0]

RestInit ==
    HistoryInit /\ FilterInit /\ MonitoringInit /\ WorkerInit /\ JobsInit

ExtraInit == NotifyInit /\ MentionInit /\ SentimentInit /\ RestInit

RLInit ==
    /\ now = Epoch
    /\ rateLimits = RateLimitInit(Epoch)
    /\ lastCall = NoCall
    /\ MonitorInit
    /\ AlertInit
    /\ EdgeInit
    /\ ExtraInit

RLRequest(service, cost) ==
    LET r == CanMakeRequest(rateLimits, service, cost, now)
    IN  /\ rateLimits' = r.limits
        /\ lastCall' = [service |-> service, cost |-> cost, at |-> now,
                        ok |-> r.ok, pre |-> rateLimits]
        /\ UNCHANGED <<now, monitorVars, edgeVars, extraVars, alertVars>>

RLAdvance(d) ==
    /\ now + d <= Epoch + RLHorizon
    /\ now' = now + d
    /\ UNCHANGED <<rateLimits, lastCall, monitorVars, edgeVars, extraVars, alertVars>>

RLNext ==
    \/ \E service \in Services, cost \in RLCosts : RLRequest(service, cost)
    \/ \E d \in RLDurations : RLAdvance(d)

SpecRL == RLInit /\ [][RLNext]_vars

----------------------------------------------------------------------------
(* MentionMonitoringService: the operations *)

otherVars == <<lastCall, alertVars, edgeVars, extraVars>>

\* a call of the public API arrives
ApiCall ==
    /\ calls < MaxCalls
    /\ calls' = calls + 1

\* such a call leaves a continuation behind its await
ApiCallAwaiting ==
    /\ ApiCall
    /\ Len(pending) < MaxPending

\* the batch in progress has settled: Promise.allSettled resolves
BatchReady ==
    /\ isProcessing
    /\ \A i \in DOMAIN passes : passes[i].pc = "done"

\* a continuation is ready to run; timers and network completions wait
MicroPending == pending # <<>> \/ BatchReady

\* the passes of a monitor that is deleted or replaced keep the old object
OrphanPasses(ps, monitorId, stats) ==
    [i \in DOMAIN ps |->
        IF ps[i].id = monitorId /\ ps[i].pc # "done" /\ ~ps[i].orphan
        THEN [ps[i] EXCEPT !.orphan = TRUE, !.own = stats]
        ELSE ps[i]]

\* ids that a running importMonitors call has drawn for its next monitors
ReservedIds ==
    UNION {Range(pending[i].rest) : i \in DOMAIN pending}

\* createMonitor(config) up to its await: builds the monitor, registers and
\* saves it
Register(monitorId, cfg) ==
    /\ activeMonitors' = Put(activeMonitors, monitorId, NewMonitor(cfg))
    /\ storage' = Put(storage, monitorId, NewMonitor(cfg))
    /\ passes' = IF monitorId \in DOMAIN activeMonitors
                 THEN OrphanPasses(passes, monitorId, activeMonitors[monitorId].stats)
                 ELSE passes

\* what createMonitor does after its await: "if (isActive) addToProcessingQueue"
AfterCreate(monitorId, cfg) ==
    IF cfg.isActive THEN <<[op |-> "add", id |-> monitorId, rest |-> <<>>]>> ELSE <<>>

\* createMonitor(config); config.id is any id, given or generated
CreateMonitor(monitorId, cfg) ==
    /\ ApiCallAwaiting
    /\ monitorId \notin ReservedIds
    /\ Register(monitorId, cfg)
    /\ pending' = pending \o AfterCreate(monitorId, cfg)
    /\ UNCHANGED <<now, nextTick, monitoringQueue, isProcessing, rateLimits, dec, otherVars>>

\* importMonitors(data) with data.monitors of the length of ids: every
\* monitor gets a generated id, which no registered monitor has, and is
\* created after the previous createMonitor has returned
ImportMonitors(ids) ==
    /\ ApiCallAwaiting
    /\ Len(ids) >= 1
    /\ \A i, j \in DOMAIN ids : i # j => ids[i] # ids[j]
    /\ \A i \in DOMAIN ids :
          /\ ids[i] \notin DOMAIN activeMonitors
          /\ ids[i] \notin ReservedIds
          /\ \A k \in DOMAIN passes : passes[k].id # ids[i]
          /\ ids[i] \notin Range(monitoringQueue)
    /\ Register(Head(ids), ImportConfig)
    /\ pending' = pending \o AfterCreate(Head(ids), ImportConfig)
                          \o (IF Len(ids) > 1
                              THEN <<[op |-> "import", id |-> 0, rest |-> Tail(ids)]>>
                              ELSE <<>>)
    /\ UNCHANGED <<now, nextTick, monitoringQueue, isProcessing, rateLimits, dec, otherVars>>

\* UpdateMonitor that changes the registered object in place, so that a pass
\* in flight sees the new keywords
UpdateMonitor_InPlace(monitorId, nKeywords) ==
    /\ ApiCall
    /\ monitorId \in DOMAIN activeMonitors
    /\ activeMonitors[monitorId].nKeywords # nKeywords
    /\ activeMonitors' = [activeMonitors EXCEPT ![monitorId].nKeywords = nKeywords]
    /\ storage' = Put(storage, monitorId, activeMonitors'[monitorId])
    /\ passes' = [k \in DOMAIN passes |->
                     IF passes[k].id = monitorId /\ passes[k].pc # "done"
                        /\ ~passes[k].orphan
                     THEN [passes[k] EXCEPT !.nKeywords = nKeywords]
                     ELSE passes[k]]
    /\ UNCHANGED <<now, nextTick, monitoringQueue, isProcessing, pending,
                   rateLimits, dec, otherVars>>

\* updateMonitor(id, updates) with updates = {keywords}: a new object that
\* shares stats and data with the old one replaces it and is saved
UpdateMonitor(monitorId, nKeywords) ==
    /\ ApiCall
    /\ monitorId \in DOMAIN activeMonitors
    /\ activeMonitors[monitorId].nKeywords # nKeywords
    /\ LET updatedMonitor == [activeMonitors[monitorId] EXCEPT !.nKeywords = nKeywords]
       IN  /\ activeMonitors' = [activeMonitors EXCEPT ![monitorId] = updatedMonitor]
           /\ storage' = Put(storage, monitorId, updatedMonitor)
    /\ UNCHANGED <<now, nextTick, monitoringQueue, isProcessing, passes, pending,
                   rateLimits, dec, otherVars>>

\* toggleMonitor(id, isActive) up to the await of updateMonitor
ToggleMonitor(monitorId, active) ==
    /\ ApiCallAwaiting
    /\ monitorId \in DOMAIN activeMonitors
    /\ LET updatedMonitor == [activeMonitors[monitorId] EXCEPT !.isActive = active]
       IN  /\ activeMonitors' = [activeMonitors EXCEPT ![monitorId] = updatedMonitor]
           /\ storage' = Put(storage, monitorId, updatedMonitor)
    /\ pending' = Append(pending, [op |-> IF active THEN "add" ELSE "remove",
                                   id |-> monitorId, rest |-> <<>>])
    /\ UNCHANGED <<now, nextTick, monitoringQueue, isProcessing, passes,
                   rateLimits, dec, otherVars>>

\* deleteMonitor(id)
DeleteMonitor(monitorId) ==
    /\ ApiCall
    /\ monitorId \in DOMAIN activeMonitors
    /\ activeMonitors' = Remove(activeMonitors, monitorId)
    /\ monitoringQueue' = removeFromProcessingQueue(monitoringQueue, monitorId)
    /\ storage' = Remove(storage, monitorId)
    /\ passes' = OrphanPasses(passes, monitorId, activeMonitors[monitorId].stats)
    /\ UNCHANGED <<now, nextTick, isProcessing, pending, rateLimits, dec, otherVars>>

\* the continuation at the head of pending runs: the queue update that ends
\* createMonitor or toggleMonitor, or the next createMonitor of importMonitors
Resume ==
    /\ pending # <<>>
    /\ LET c == Head(pending)
       IN  CASE c.op = "add" ->
                  /\ monitoringQueue' = addToProcessingQueue(monitoringQueue, c.id)
                  /\ pending' = Tail(pending)
                  /\ UNCHANGED <<activeMonitors, storage, passes>>
             [] c.op = "remove" ->
                  /\ monitoringQueue' = removeFromProcessingQueue(monitoringQueue, c.id)
                  /\ pending' = Tail(pending)
                  /\ UNCHANGED <<activeMonitors, storage, passes>>
             [] c.op = "import" ->
                  /\ Register(Head(c.rest), ImportConfig)
                  /\ pending' = Tail(pending) \o AfterCreate(Head(c.rest), ImportConfig)
                                   \o (IF Len(c.rest) > 1
                                       THEN <<[op |-> "import", id |-> 0,
                                               rest |-> Tail(c.rest)]>>
                                       ELSE <<>>)
                  /\ UNCHANGED monitoringQueue
    /\ UNCHANGED <<calls, now, nextTick, isProcessing, rateLimits, dec, otherVars>>

\* processQueue() up to "await Promise.allSettled"
ProcessQueue ==
    LET started == StartBatch(activeMonitors, rateLimits, BatchOf(monitoringQueue), now)
    IN  /\ ~isProcessing
        /\ isProcessing' = TRUE
        /\ monitoringQueue' = RestOf(monitoringQueue)
        /\ passes' = passes \o started.passes
        /\ rateLimits' = started.limits

\* the setInterval callback of startProcessingLoop
Tick ==
    /\ ~MicroPending
    /\ now >= nextTick
    /\ nextTick' = nextTick + processingInterval
    /\ IF ~isProcessing /\ Len(monitoringQueue) > 0
       THEN ProcessQueue
       ELSE UNCHANGED <<isProcessing, monitoringQueue, passes, rateLimits>>
    /\ UNCHANGED <<calls, now, activeMonitors, pending, storage, dec, otherVars>>

\* a pass goes on waiting (for a fetch or the sentiment analysis)
Continue(i, p) ==
    /\ passes' = [passes EXCEPT ![i] = p]
    /\ UNCHANGED <<activeMonitors, storage, dec>>

\* the startTime option of the searches of a pass: monitor.lastProcessed of
\* the monitor object if the object has such a property, else undefined
\* (the search then covers the default window of the provider)
FetchStartTime(monitor) ==
    IF "lastProcessed" \in DOMAIN monitor THEN monitor.lastProcessed ELSE {}

\* the rest of processMonitor once mentions and sentiment are known:
\* checkAlertConditions, updateMonitorData on the object the pass holds,
\* which saves that object, and sendAlerts; startTime is a history field,
\* the startTime of the searches of the pass
Decide(i, p, sentiment) ==
    LET stats    == IF p.orphan THEN p.own ELSE activeMonitors[p.id].stats
        fired    == checkAlertConditions(stats, p, sentiment, now)
        updated  == updateMonitorData(stats, p, sentiment, fired, now)
        held     == [isActive |-> TRUE, nKeywords |-> p.nKeywords, stats |-> updated]
    IN  /\ activeMonitors' = IF p.orphan THEN activeMonitors
                             ELSE [activeMonitors EXCEPT ![p.id].stats = updated]
        /\ storage' = Put(storage, p.id, held)
        /\ passes' = [passes EXCEPT ![i] =
                         DonePass(p.id, "completed", p.reserved, p.kw, Cardinality(fired))]
        /\ dec' = [id |-> p.id, at |-> now, ts |-> p.ts, n |-> Cardinality(fired),
                   qual |-> Cardinality(Conditions(stats, p, sentiment)),
                   live |-> ~p.orphan /\ activeMonitors[p.id].isActive,
                   volume |-> p.volume,
                   spike |-> IF "mention_spike" \in fired
                             THEN SpikeSeverity(p.volume, mentionSpike) ELSE "none",
                   unavail |-> p.unavail,
                   startTime |-> FetchStartTime(held),
                   prevFire |-> stats.hFire, prevSup |-> stats.hSup,
                   prevProcessed |-> stats.lastProcessed,
                   prevAlert |-> stats.lastAlert]

\* the keyword loop of processMonitor after the keyword p.kw is dealt with
AfterKeyword(i, p) ==
    IF p.kw < p.nKeywords
    THEN Continue(i, [p EXCEPT !.kw = p.kw + 1, !.pc = "fetch"])
    ELSE IF p.volume > 0
         THEN Continue(i, [p EXCEPT !.pc = "score"])
         ELSE Decide(i, p, {})

\* twitterService.searchMentions returns for the keyword p.kw of pass i: the
\* mentions that pass the filters (their number, whether an influencer is
\* among them) are added to the results.  The delay(1000) that follows is
\* shorter than the clock resolution and changes nothing but the position of
\* the pass, so the loop goes on in the same step.
FetchReturn(i, count, infl) ==
    /\ ~MicroPending
    /\ i \in DOMAIN passes
    /\ passes[i].pc = "fetch"
    /\ infl => count > 0
    /\ AfterKeyword(i, [passes[i] EXCEPT !.volume = @ + count, !.infl = @ \/ infl])
    /\ UNCHANGED <<calls, now, nextTick, monitoringQueue, isProcessing, pending,
                   rateLimits, otherVars>>

\* the fetch or the filtering of pass i throws: caught per keyword, the loop
\* goes on with the next keyword
FetchError(i) ==
    /\ ~MicroPending
    /\ i \in DOMAIN passes
    /\ passes[i].pc = "fetch"
    /\ AfterKeyword(i, passes[i])
    /\ UNCHANGED <<calls, now, nextTick, monitoringQueue, isProcessing, pending,
                   rateLimits, otherVars>>

\* analyzeMentionsSentiment returns for pass i: null ({}) or an average
ScoreReturn(i, sentiment) ==
    /\ ~MicroPending
    /\ i \in DOMAIN passes
    /\ passes[i].pc = "score"
    /\ Decide(i, passes[i], sentiment)
    /\ UNCHANGED <<calls, now, nextTick, monitoringQueue, isProcessing, pending,
                   rateLimits, otherVars>>

\* StillActive without the isActive test
StillActive_IgnoresFlag(mons, monitorId) == monitorId \in DOMAIN mons

\* the test of the re-add loop of processQueue: "monitor && monitor.isActive"
StillActive(mons, monitorId) ==
    /\ monitorId \in DOMAIN mons
    /\ mons[monitorId].isActive

\* ReAdd that leaves out the monitors whose pass failed
ReAdd_DropsFailed(mons, q, batch) ==
    q \o SelectSeq(batch,
                   LAMBDA id : /\ StillActive(mons, id)
                               /\ id \notin Range(q)
                               /\ \A k \in DOMAIN passes :
                                     passes[k].id = id => passes[k].outcome # "failed")

RECURSIVE ReAdd(_, _, _)
\* "Re-add active monitors to queue"
ReAdd(mons, q, batch) ==
    IF batch = <<>>
    THEN q
    ELSE ReAdd(mons,
               IF StillActive(mons, Head(batch))
               THEN addToProcessingQueue(q, Head(batch)) ELSE q,
               Tail(batch))

\* processQueue() after "await Promise.allSettled"
BatchDone ==
    /\ BatchReady
    /\ monitoringQueue' = ReAdd(activeMonitors, monitoringQueue,
                                [i \in DOMAIN passes |-> passes[i].id])
    /\ isProcessing' = FALSE
    /\ passes' = <<>>
    /\ dec' = NoDecision
    /\ UNCHANGED <<calls, now, nextTick, activeMonitors, pending, storage, rateLimits,
                   otherVars>>

\* time passes; a due timer fires before more time passes
Advance(d) ==
    /\ ~MicroPending
    /\ now + d <= nextTick
    /\ now + d <= Epoch + Horizon
    /\ now' = now + d
    /\ UNCHANGED <<monitorVars, rateLimits, otherVars>>

Init ==
    /\ now = Epoch
    /\ rateLimits = RateLimitInit(Epoch)
    /\ lastCall = NoCall
    /\ MonitorInit
    /\ AlertInit
    /\ EdgeInit
    /\ ExtraInit

Next ==
    \/ \E id \in MonitorIds, cfg \in MonitorConfigs : CreateMonitor(id, cfg)
    \/ \E a, b \in MonitorIds : ImportMonitors(IF a = b THEN <<a>> ELSE <<a, b>>)
    \/ \E id \in MonitorIds, k \in KeywordCounts : UpdateMonitor(id, k)
    \/ \E id \in MonitorIds, active \in BOOLEAN : ToggleMonitor(id, active)
    \/ \E id \in MonitorIds : DeleteMonitor(id)
    \/ Resume
    \/ Tick
    \/ \E i \in 1 .. NumMonitors, count \in FetchCounts, infl \in BOOLEAN :
          FetchReturn(i, count, infl)
    \/ \E i \in 1 .. NumMonitors : FetchError(i)
    \/ \E i \in 1 .. NumMonitors, s \in {{}} \cup {{v} : v \in SentimentValues} :
          ScoreReturn(i, s)
    \/ BatchDone
    \/ Advance(processingInterval)

Spec == Init /\ [][Next]_vars

\* updateMonitor(id, {isActive}) called directly: the new object replaces
\* the old one and is saved; the queue is not touched
UpdateMonitorActive(monitorId, active) ==
    /\ ApiCall
    /\ monitorId \in DOMAIN activeMonitors
    /\ activeMonitors[monitorId].isActive # active
    /\ LET updatedMonitor == [activeMonitors[monitorId] EXCEPT !.isActive = active]
       IN  /\ activeMonitors' = [activeMonitors EXCEPT ![monitorId] = updatedMonitor]
           /\ storage' = Put(storage, monitorId, updatedMonitor)
    /\ UNCHANGED <<now, nextTick, monitoringQueue, isProcessing, passes, pending,
                   rateLimits, dec, otherVars>>

\* the service with every operation of its API
ScheduleNext ==
    \/ Next
    \/ \E id \in MonitorIds, active \in BOOLEAN : UpdateMonitorActive(id, active)

SpecSchedule == Init /\ [][ScheduleNext]_vars

----------------------------------------------------------------------------
(* The service left to run: one stored monitor is loaded at construction
   (loadStoredMonitors) and the public API is not called *)

StoredMonitor == NewMonitor([nKeywords |-> 1, isActive |-> TRUE])

LongInit ==
    /\ now = Epoch
    /\ rateLimits = RateLimitInit(Epoch)
    /\ lastCall = NoCall
    /\ nextTick = Epoch + processingInterval
    /\ storage = Put(<<>>, 1, StoredMonitor)
    /\ activeMonitors = Put(<<>>, 1, StoredMonitor)
    /\ monitoringQueue = <<1>>
    /\ isProcessing = FALSE
    /\ passes = <<>>
    /\ pending = <<>>
    /\ calls = 0
    /\ dec = NoDecision
    /\ AlertInit
    /\ EdgeInit
    /\ ExtraInit

LongAdvance(d) ==
    /\ ~MicroPending
    /\ now + d <= nextTick
    /\ now + d <= Epoch + LongHorizon
    /\ now' = now + d
    /\ UNCHANGED <<monitorVars, rateLimits, otherVars>>

LongNext ==
    \/ Tick
    \/ \E i \in 1 .. NumMonitors, count \in FetchCounts, infl \in BOOLEAN :
          FetchReturn(i, count, infl)
    \/ \E i \in 1 .. NumMonitors : FetchError(i)
    \/ \E i \in 1 .. NumMonitors, s \in {{}} \cup {{v} : v \in SentimentValues} :
          ScoreReturn(i, s)
    \/ BatchDone
    \/ \E d \in Durations : LongAdvance(d)

SpecLong == LongInit /\ [][LongNext]_vars

----------------------------------------------------------------------------
(* createMonitor called with any configuration, also one whose keywords are
   the empty array *)

OpenConfigs == [nKeywords : {0, 1}, isActive : BOOLEAN]

CreateNext ==
    \/ \E id \in MonitorIds, cfg \in OpenConfigs : CreateMonitor(id, cfg)
    \/ \E id \in MonitorIds : DeleteMonitor(id)
    \/ Resume

SpecCreate == Init /\ [][CreateNext]_vars

----------------------------------------------------------------------------
(* The service left to run with more stored monitors than a batch holds *)

LoadedMonitors == [id \in 1 .. NumStored |-> StoredMonitor]

\* loadStoredMonitors: every stored monitor is registered and, being active,
\* queued in the order of the keys
LoadedQueue == [i \in 1 .. NumStored |-> i]

BatchInit ==
    /\ now = Epoch
    /\ rateLimits = RateLimitInit(Epoch)
    /\ lastCall = NoCall
    /\ nextTick = Epoch + processingInterval
    /\ storage = LoadedMonitors
    /\ activeMonitors = LoadedMonitors
    /\ monitoringQueue = LoadedQueue
    /\ isProcessing = FALSE
    /\ passes = <<>>
    /\ pending = <<>>
    /\ calls = 0
    /\ dec = NoDecision
    /\ AlertInit
    /\ EdgeInit
    /\ ExtraInit

BatchAdvance(d) ==
    /\ ~MicroPending
    /\ now + d <= nextTick
    /\ now + d <= Epoch + BatchHorizon
    /\ now' = now + d
    /\ UNCHANGED <<monitorVars, rateLimits, otherVars>>

BatchNext ==
    \/ Tick
    \/ \E i \in 1 .. batchSize, count \in FetchCounts : FetchReturn(i, count, FALSE)
    \/ \E i \in 1 .. batchSize : FetchError(i)
    \/ \E i \in 1 .. batchSize : ScoreReturn(i, {})
    \/ BatchDone
    \/ BatchAdvance(processingInterval)

SpecBatch == BatchInit /\ [][BatchNext]_vars

----------------------------------------------------------------------------
(* The service left to run with two stored monitors whose fetches can fail
   and whose deciding step can throw *)

\* getMockMentions returns two tweets without a lang field, the second by a
\* verified author
MockTweets == 2

\* the fetch of pass i meets a provider error: makeRequest throws,
\* searchMentions catches and returns getMockMentions(query).  filterMentions
\* keeps the mock tweets (kept) when monitor.filters.languages is empty and
\* drops them when it names languages
FetchUnavailable(i, kept) ==
    /\ ~MicroPending
    /\ i \in DOMAIN passes
    /\ passes[i].pc = "fetch"
    /\ AfterKeyword(i, [passes[i] EXCEPT !.volume = @ + (IF kept THEN MockTweets ELSE 0),
                                          !.infl = @ \/ kept,
                                          !.unavail = TRUE])
    /\ UNCHANGED <<calls, now, nextTick, monitoringQueue, isProcessing, pending,
                   rateLimits, otherVars>>

\* the last awaited call of pass i returns and checkAlertConditions throws:
\* the catch of processMonitor logs and returns null, updateMonitorData and
\* sendAlerts are not reached
DecideThrows(i) ==
    /\ ~MicroPending
    /\ i \in DOMAIN passes
    /\ passes[i].pc # "done"
    /\ passes[i].kw = passes[i].nKeywords
    /\ passes' = [passes EXCEPT ![i] =
                     DonePass(passes[i].id, "failed", passes[i].reserved, passes[i].kw, 0)]
    /\ UNCHANGED <<calls, now, nextTick, activeMonitors, monitoringQueue, isProcessing,
                   pending, storage, rateLimits, dec, otherVars>>

FailInit ==
    /\ now = Epoch
    /\ rateLimits = RateLimitInit(Epoch)
    /\ lastCall = NoCall
    /\ nextTick = Epoch + processingInterval
    /\ storage = [id \in MonitorIds |-> StoredMonitor]
    /\ activeMonitors = [id \in MonitorIds |-> StoredMonitor]
    /\ monitoringQueue = [i \in MonitorIds |-> i]
    /\ isProcessing = FALSE
    /\ passes = <<>>
    /\ pending = <<>>
    /\ calls = 0
    /\ dec = NoDecision
    /\ AlertInit
    /\ EdgeInit
    /\ ExtraInit

FailAdvance(d) ==
    /\ ~MicroPending
    /\ now + d <= nextTick
    /\ now + d <= Epoch + FailHorizon
    /\ now' = now + d
    /\ UNCHANGED <<monitorVars, rateLimits, otherVars>>

FailNext ==
    \/ Tick
    \/ \E i \in 1 .. NumMonitors, count \in FailCounts : FetchReturn(i, count, FALSE)
    \/ \E i \in 1 .. NumMonitors : FetchError(i)
    \/ \E i \in 1 .. NumMonitors, kept \in BOOLEAN : FetchUnavailable(i, kept)
    \/ \E i \in 1 .. NumMonitors, s \in {{}} \cup {{v} : v \in SentimentValues} :
          ScoreReturn(i, s)
    \/ \E i \in 1 .. NumMonitors : DecideThrows(i)
    \/ BatchDone
    \/ FailAdvance(processingInterval)

SpecFail == FailInit /\ [][FailNext]_vars

\* The timer callbacks and the continuation of processQueue run when they are
\* due; nothing makes a pending external call return.
SpecFailFair ==
    /\ SpecFail
    /\ WF_vars(Tick)
    /\ WF_vars(BatchDone)
    /\ WF_vars(FailAdvance(processingInterval))

----------------------------------------------------------------------------
(* AlertService: alerts, their interval timers and checkAlert *)

checkInterval == 60000

\* the awaited searches of the check of an alert type (checkNewMention,
\* checkSentimentChange and checkInfluencerMention: one; checkMentionIncrease
\* and checkVolumeSpike: two)
Searches(type) ==
    IF type \in {"mention_increase", "volume_spike"} THEN 2 ELSE 1

\* startAlertMonitoring(alert): "Already monitoring" or a new interval
startAlertMonitoring(mons, alertId, t) ==
    IF alertId \in DOMAIN mons THEN mons ELSE Put(mons, alertId, t + checkInterval)

\* stopAlertMonitoring(alertId): clearInterval and delete
stopAlertMonitoring(mons, alertId) == Remove(mons, alertId)

\* "!threshold || isNaN(parseFloat(threshold))" is false.  The inputs are
\* undefined, the number 0, the number 10 and the string "abc".
ValidThreshold(threshold) ==
    /\ threshold \notin {"undefined", "0"}
    /\ threshold # "abc"

\* validateAlert(alert).valid for an alert that has a config object; project
\* and method say whether config.project and config.notificationMethod are
\* set, type "" is a missing type
validateAlert(alert) ==
    /\ alert.type # ""
    /\ alert.project
    /\ alert.method
    /\ CASE alert.type \in {"mention_increase", "volume_spike", "new_mention"} ->
               ValidThreshold(alert.threshold)
         [] alert.type = "sentiment_change" ->
               /\ ValidThreshold(alert.threshold)
               /\ alert.direction \in {"positive", "negative", "any"}
         [] OTHER -> TRUE

\* a configuration of the given type that validateAlert accepts
ConfigOf(type) ==
    [type |-> type, project |-> TRUE, method |-> TRUE, threshold |-> "10",
     direction |-> "any"]

\* the alert object that createAlert builds
NewAlert(alertConfig) ==
    [status |-> "active", type |-> alertConfig.type, project |-> alertConfig.project,
     method |-> alertConfig.method, threshold |-> alertConfig.threshold,
     direction |-> alertConfig.direction]

\* { ...alert, ...updates }
Merge(alert, updates) ==
    [f \in DOMAIN alert |-> IF f \in DOMAIN updates THEN updates[f] ELSE alert[f]]

\* history: the last createAlert or updateAlert call and whether it returned
\* (ok) or threw
AlertCall(operation, alertId, ok) ==
    [service |-> operation, cost |-> alertId, at |-> now, ok |-> ok,
     pre |-> RateLimitInit(0)]

\* createAlert(alertConfig); generateAlertId gives an id that no alert has or
\* had.  The map is saved to localStorage right after each change of it, so
\* the persisted alerts are the value of alerts.
createAlert(alertId, alertConfig) ==
    /\ alertId \notin DOMAIN alerts
    /\ \A i \in DOMAIN alertChecks : alertChecks[i].alertId # alertId
    /\ IF validateAlert(NewAlert(alertConfig))
       THEN /\ alerts' = Put(alerts, alertId, NewAlert(alertConfig))
            /\ alertMonitors' = startAlertMonitoring(alertMonitors, alertId, now)
       ELSE UNCHANGED <<alerts, alertMonitors>>
    /\ lastCall' = AlertCall("createAlert", alertId, validateAlert(NewAlert(alertConfig)))
    /\ UNCHANGED <<now, alertChecks, monitorVars, edgeVars, extraVars, rateLimits>>

\* updateAlert that commits the merged alert without validating it
updateAlert_Unvalidated(alertId, updates) ==
    /\ alertId \in DOMAIN alerts
    /\ alerts' = [alerts EXCEPT ![alertId] = Merge(alerts[alertId], updates)]
    /\ alertMonitors' =
          IF Merge(alerts[alertId], updates).status = "active"
          THEN startAlertMonitoring(stopAlertMonitoring(alertMonitors, alertId), alertId, now)
          ELSE stopAlertMonitoring(alertMonitors, alertId)
    /\ lastCall' = AlertCall("updateAlert", alertId, TRUE)
    /\ UNCHANGED <<now, alertChecks, monitorVars, edgeVars, extraVars, rateLimits>>

\* updateAlert(alertId, updates): the merged alert is validated; the interval
\* is stopped and, for an active alert, started again
updateAlert(alertId, updates) ==
    /\ alertId \in DOMAIN alerts
    /\ LET updatedAlert == Merge(alerts[alertId], updates)
       IN  /\ IF validateAlert(updatedAlert)
              THEN /\ alerts' = [alerts EXCEPT ![alertId] = updatedAlert]
                   /\ alertMonitors' =
                         IF updatedAlert.status = "active"
                         THEN startAlertMonitoring(
                                  stopAlertMonitoring(alertMonitors, alertId), alertId, now)
                         ELSE stopAlertMonitoring(alertMonitors, alertId)
              ELSE UNCHANGED <<alerts, alertMonitors>>
           /\ lastCall' = AlertCall("updateAlert", alertId, validateAlert(updatedAlert))
    /\ UNCHANGED <<now, alertChecks, monitorVars, edgeVars, extraVars, rateLimits>>

\* createAlert with a valid configuration of the given type
CreateAlert(alertId, type) == createAlert(alertId, ConfigOf(type))

\* updateAlert(alertId, {status})
UpdateAlert(alertId, status) == updateAlert(alertId, [status |-> status])

\* deleteAlert(alertId)
DeleteAlert(alertId) ==
    /\ alertId \in DOMAIN alerts
    /\ alertMonitors' = stopAlertMonitoring(alertMonitors, alertId)
    /\ alerts' = Remove(alerts, alertId)
    /\ UNCHANGED <<now, alertChecks, monitorVars, edgeVars, extraVars, rateLimits, lastCall>>

\* whether checkAlert goes on after looking up the alert
CheckMayStart(as, alertId) ==
    /\ alertId \in DOMAIN as
    /\ as[alertId].status = "active"

\* the setInterval callback of startAlertMonitoring: checkAlert(alertId) up
\* to its first search; the call holds the alert object it looked up
AlertTimer(alertId) ==
    /\ alertId \in DOMAIN alertMonitors
    /\ now >= alertMonitors[alertId]
    /\ alertMonitors' = [alertMonitors EXCEPT ![alertId] = @ + checkInterval]
    /\ IF CheckMayStart(alerts, alertId)
       THEN /\ Len(alertChecks) < MaxChecks
            /\ alertChecks' = Append(alertChecks,
                                 [alertId |-> alertId, alert |-> alerts[alertId],
                                  left |-> Searches(alerts[alertId].type)])
       ELSE UNCHANGED alertChecks
    /\ UNCHANGED <<now, alerts, monitorVars, edgeVars, extraVars, rateLimits, lastCall>>

DropCheck(i) ==
    SubSeq(alertChecks, 1, i - 1) \o SubSeq(alertChecks, i + 1, Len(alertChecks))

\* a search of the check i returns; after the last one checkAlert puts the
\* alert object it holds into the map and saves
CheckReturn(i) ==
    /\ i \in DOMAIN alertChecks
    /\ IF alertChecks[i].left > 1
       THEN /\ alertChecks' = [alertChecks EXCEPT ![i].left = @ - 1]
            /\ UNCHANGED alerts
       ELSE /\ alertChecks' = DropCheck(i)
            /\ alerts' = Put(alerts, alertChecks[i].alertId, alertChecks[i].alert)
    /\ UNCHANGED <<now, alertMonitors, monitorVars, edgeVars, extraVars, rateLimits, lastCall>>

\* a search of the check i throws: caught, lastError is noted on the object
CheckThrows(i) ==
    /\ i \in DOMAIN alertChecks
    /\ alertChecks' = DropCheck(i)
    /\ UNCHANGED <<now, alerts, alertMonitors, monitorVars, edgeVars, extraVars, rateLimits, lastCall>>

\* time passes; a due interval fires before more time passes
AlertAdvance(d) ==
    /\ now + d <= Epoch + AlertHorizon
    /\ \A a \in DOMAIN alertMonitors : now + d <= alertMonitors[a]
    /\ now' = now + d
    /\ UNCHANGED <<alertVars, monitorVars, edgeVars, extraVars, rateLimits, lastCall>>

AlertSpecInit ==
    /\ now = Epoch
    /\ rateLimits = RateLimitInit(Epoch)
    /\ lastCall = NoCall
    /\ MonitorInit
    /\ AlertInit
    /\ EdgeInit
    /\ ExtraInit

AlertNext ==
    \/ \E a \in AlertIds, type \in AlertTypes : CreateAlert(a, type)
    \/ \E a \in AlertIds, status \in {"active", "paused"} : UpdateAlert(a, status)
    \/ \E a \in AlertIds : DeleteAlert(a)
    \/ \E a \in AlertIds : AlertTimer(a)
    \/ \E i \in 1 .. MaxChecks : CheckReturn(i)
    \/ \E i \in 1 .. MaxChecks : CheckThrows(i)
    \/ AlertAdvance(checkInterval)

SpecAlert == AlertSpecInit /\ [][AlertNext]_vars

----------------------------------------------------------------------------
(* AlertService: createAlert, updateAlert and deleteAlert with any
   configuration *)

AlertConfigs ==
    [type : ConfigTypes, project : BOOLEAN, method : BOOLEAN,
     threshold : ThresholdInputs, direction : Directions]

\* the updates offered to updateAlert: a status, a type, or the fields of a
\* new config object
AlertUpdates ==
    {[status |-> st] : st \in {"active", "paused"}}
        \cup {[type |-> t] : t \in ConfigTypes}
        \cup [project : BOOLEAN, method : BOOLEAN,
              threshold : ThresholdInputs, direction : Directions]

AlertCfgNext ==
    \/ \E a \in AlertIds, alertConfig \in AlertConfigs : createAlert(a, alertConfig)
    \/ \E a \in AlertIds, updates \in AlertUpdates : updateAlert(a, updates)
    \/ \E a \in AlertIds : DeleteAlert(a)

SpecAlertCfg == AlertSpecInit /\ [][AlertCfgNext]_vars

----------------------------------------------------------------------------
(* AlertService: triggerAlert, processNotificationQueue and the delivery of
   notifications; MentionMonitoringService: sendAlerts and sendWebhookAlert *)

maxRetries == 3

\* response.ok
Ok(status) == status \in 200..299

\* sendWebhookNotification: fetch rejects or the response is not ok -> throws
sendWebhookNotification(status) ==
    IF status # 0 /\ Ok(status) THEN "returned" ELSE "thrown"

\* sendBrowserNotification: whether a Notification is shown
sendBrowserNotification(c) ==
    \/ c.permission = "granted"
    \/ c.permission = "default" /\ c.answer = "granted"

\* deliverNotification: "if (!alert) return", then the switch on
\* alert.config.notificationMethod; sendWebhookNotification returns at once
\* when the config has no webhookUrl.  sent says whether the notification
\* went out through the channel.
deliverNotification(channel, status, c) ==
    IF ~c.alert THEN [outcome |-> "returned", sent |-> FALSE, posted |-> FALSE]
    ELSE CASE channel = "webhook" ->
                 IF ~c.webhookUrl
                 THEN [outcome |-> "returned", sent |-> FALSE, posted |-> FALSE]
                 ELSE [outcome |-> sendWebhookNotification(status),
                       sent |-> sendWebhookNotification(status) = "returned",
                       posted |-> TRUE]
           [] channel = "browser" ->
                 [outcome |-> "returned", sent |-> sendBrowserNotification(c),
                  posted |-> FALSE]
           [] OTHER -> [outcome |-> "returned", sent |-> TRUE, posted |-> FALSE]

ShouldRequeue_OnceMore(retries) == retries <= maxRetries

\* notification.retries < this.maxRetries, after the increment
ShouldRequeue(retries) == retries < maxRetries

\* notificationQueue.shift() at the head of the while loop, followed by the
\* call of deliverNotification
Shift(ns, q) ==
    [ns    |-> [ns EXCEPT ![Head(q)].attempts = @ + 1],
     q     |-> Tail(q),
     state |-> [isProcessing |-> TRUE, pc |-> "deliver", id |-> Head(q)]]

\* triggerAlert: a notification is created and pushed; processNotificationQueue
\* is called unless it is running, and runs up to its first await
TriggerAlert ==
    /\ Len(notifications) < MaxNotifications
    /\ LET id == Len(notifications) + 1
           ns == Append(notifications,
                        [delivered |-> FALSE, retries |-> 0, attempts |-> 0,
                         sent |-> FALSE])
           q  == Append(notificationQueue, id)
       IN  IF notifier.isProcessing
           THEN /\ notifications' = ns
                /\ notificationQueue' = q
                /\ UNCHANGED notifier
           ELSE /\ notifications' = Shift(ns, q).ns
                /\ notificationQueue' = Shift(ns, q).q
                /\ notifier' = Shift(ns, q).state
    /\ UNCHANGED <<lastWebhook, lastDispatch, now, rateLimits, monitorVars,
                   lastCall, alertVars, edgeVars,
                   mentionVars, sentimentVars, restVars>>

\* deliverNotification settles: delivered = true, or the catch block counts a
\* retry and pushes the notification again; then the loop awaits delay(100).
\* sent is a history field: whether an attempt has sent the notification.
Deliver(channel, status, c) ==
    /\ notifier.pc = "deliver"
    /\ LET id       == notifier.id
           delivery == deliverNotification(channel, status, c)
           returned == delivery.outcome = "returned"
           retries  == notifications[id].retries + 1
       IN  /\ notifications' =
                  IF returned
                  THEN [notifications EXCEPT ![id].delivered = TRUE,
                                             ![id].sent = @ \/ delivery.sent]
                  ELSE [notifications EXCEPT ![id].retries = retries]
           /\ notificationQueue' =
                  IF ~returned /\ ShouldRequeue(retries)
                  THEN Append(notificationQueue, id)
                  ELSE notificationQueue
           /\ lastWebhook' =
                  IF delivery.posted
                  THEN [path |-> "alertService", status |-> status,
                        outcome |-> IF returned THEN "delivered"
                                    ELSE IF ShouldRequeue(retries) THEN "retry"
                                    ELSE "failed"]
                  ELSE lastWebhook
    /\ notifier' = [notifier EXCEPT !.pc = "delay"]
    /\ UNCHANGED <<lastDispatch, now, rateLimits, monitorVars, lastCall,
                   alertVars, edgeVars,
                   mentionVars, sentimentVars, restVars>>

LoopGoesOn_Never(q) == FALSE

\* the condition of the while loop: this.notificationQueue.length > 0
LoopGoesOn(q) == Len(q) > 0

\* delay(100) is over: the while condition is tested again
DelayDone ==
    /\ notifier.pc = "delay"
    /\ IF ~LoopGoesOn(notificationQueue)
       THEN /\ notifier' = [isProcessing |-> FALSE, pc |-> "idle", id |-> 0]
            /\ UNCHANGED <<notifications, notificationQueue>>
       ELSE /\ notifications' = Shift(notifications, notificationQueue).ns
            /\ notificationQueue' = Shift(notifications, notificationQueue).q
            /\ notifier' = Shift(notifications, notificationQueue).state
    /\ UNCHANGED <<lastWebhook, lastDispatch, now, rateLimits, monitorVars,
                   lastCall, alertVars, edgeVars,
                   mentionVars, sentimentVars, restVars>>

\* the methods of the AlertService object
AlertServiceMethods ==
    {"createAlert", "updateAlert", "deleteAlert", "getAllAlerts", "getAlert",
     "startAlertMonitoring", "stopAlertMonitoring", "checkAlert",
     "checkMentionIncrease", "checkSentimentChange", "checkNewMention",
     "checkInfluencerMention", "checkVolumeSpike", "triggerAlert",
     "generateAlertTitle", "generateAlertMessage", "processNotificationQueue",
     "deliverNotification", "sendBrowserNotification", "sendEmailNotification",
     "sendWebhookNotification", "validateAlert", "startMonitoring",
     "stopMonitoring", "generateAlertId", "generateNotificationId", "delay",
     "saveAlertsToStorage", "loadAlertsFromStorage"}

\* the POSTs that the try block of sendAlerts sends for one alert: the call
\* alertService.sendAlert comes first, and calling what is not a method of
\* the object throws a TypeError that the catch block of the alert logs
PostsOfAlert(nWebhooks) ==
    IF "sendAlert" \in AlertServiceMethods THEN nWebhooks ELSE 0

\* sendAlerts(monitor, alerts) for a monitor with nWebhooks webhooks
SendAlerts(nAlerts, nWebhooks) ==
    /\ lastDispatch' = [alerts |-> nAlerts, webhooks |-> nWebhooks,
                        posts |-> nAlerts * PostsOfAlert(nWebhooks)]
    /\ UNCHANGED <<notifications, notificationQueue, notifier, lastWebhook,
                   now, rateLimits, monitorVars, lastCall, alertVars, edgeVars,
                   mentionVars, sentimentVars, restVars>>

\* sendWebhookAlert(webhook, monitor, alert): the response of fetch is not
\* looked at; a rejected fetch is logged by the catch block
SendWebhookAlert(status) ==
    /\ lastWebhook' = [path |-> "monitoring", status |-> status,
                       outcome |-> IF status = 0 THEN "logged" ELSE "delivered"]
    /\ UNCHANGED <<notifications, notificationQueue, notifier, lastDispatch,
                   now, rateLimits, monitorVars, lastCall, alertVars, edgeVars,
                   mentionVars, sentimentVars, restVars>>

NotifyNext ==
    \/ TriggerAlert
    \/ \E channel \in Channels, status \in WebhookStatuses, c \in Circumstances :
           Deliver(channel, status, c)
    \/ DelayDone
    \/ \E nAlerts \in 1..MaxFired, nWebhooks \in 0..MaxWebhooks :
           SendAlerts(nAlerts, nWebhooks)
    \/ \E status \in WebhookStatuses : SendWebhookAlert(status)

SpecNotify == Init /\ [][NotifyNext]_vars

\* every delivery attempt settles and every delay ends
SpecNotifyFair ==
    /\ SpecNotify
    /\ WF_vars(\E channel \in Channels, status \in WebhookStatuses,
                     c \in Circumstances : Deliver(channel, status, c))
    /\ WF_vars(DelayDone)

----------------------------------------------------------------------------
(* Ingestion of mentions: the upserts of the edge functions into
   twitter_mentions, and the results of processMonitor *)

\* the answers of a search: tweets in the order of their ids, each with the
\* fields it has at the time of the search
SearchResults ==
    {t \in UNION {[1..n -> [tweet_id : TweetIds, fields : FieldVersions]] :
                      n \in 1..NumTweets} :
        \A i \in 1..(Len(t) - 1) : t[i].tweet_id < t[i + 1].tweet_id}

\* upsert(mentions, { onConflict: 'tweet_id' }): a row with the tweet_id of a
\* stored row replaces it
Upsert(table, rows) ==
    {r \in table : \A i \in 1..Len(rows) : rows[i].tweet_id # r.tweet_id}
        \cup Range(rows)

\* upsert(mentions, { onConflict: 'tweet_id', ignoreDuplicates: true }): a row
\* with the tweet_id of a stored row is skipped
UpsertIgnoreDuplicates(table, rows) ==
    table \cup {r \in Range(rows) : \A old \in table : old.tweet_id # r.tweet_id}

Ingested(tweets) ==
    [id \in TweetIds |->
        IF \E i \in 1..Len(tweets) : tweets[i].tweet_id = id
        THEN (CHOOSE r \in Range(tweets) : r.tweet_id = id).fields
        ELSE lastIngested[id]]

\* an edge function stores the tweets of its search
StoreMentions(fn, tweets) ==
    /\ twitterMentions' = IF fn = "twitter-mentions"
                          THEN Upsert(twitterMentions, tweets)
                          ELSE UpsertIgnoreDuplicates(twitterMentions, tweets)
    /\ lastIngested' = Ingested(tweets)
    /\ UNCHANGED <<monitorData, notifyVars, now, rateLimits, monitorVars,
                   lastCall, alertVars, edgeVars, sentimentVars,
                   restVars>>

Ids(tweets) == [i \in 1..Len(tweets) |-> tweets[i].tweet_id]

\* processMonitor: the search of one keyword returns; its tweets are pushed
\* to results.mentions and counted in results.volume
KeywordMentions(tweets) ==
    /\ monitorData.totalMentions + monitorData.volume + Len(tweets) <= MaxTotal
    /\ monitorData' =
           [monitorData EXCEPT !.mentions = @ \o Ids(tweets),
                               !.volume = @ + Len(tweets),
                               !.seen = @ \cup Range(Ids(tweets))]
    /\ UNCHANGED <<twitterMentions, lastIngested, notifyVars, now, rateLimits,
                   monitorVars, lastCall, alertVars, edgeVars, sentimentVars,
                   restVars>>

\* updateMonitorData: the volume of the pass is added to stats.totalMentions
\* and the first 50 mentions are put in front of data.recentMentions, of
\* which 1000 are kept; the next pass starts with empty results
StoreResults ==
    /\ monitorData.mentions # <<>>
    /\ monitorData' =
           [monitorData EXCEPT
               !.totalMentions = @ + monitorData.volume,
               !.recentMentions =
                   SubSeq(SubSeq(monitorData.mentions, 1,
                                 IF Len(monitorData.mentions) < 50
                                 THEN Len(monitorData.mentions) ELSE 50) \o @,
                          1, IF Len(monitorData.mentions) + Len(@) < 1000
                             THEN Len(monitorData.mentions) + Len(@) ELSE 1000),
               !.mentions = <<>>,
               !.volume = 0]
    /\ UNCHANGED <<twitterMentions, lastIngested, notifyVars, now, rateLimits,
                   monitorVars, lastCall, alertVars, edgeVars, sentimentVars,
                   restVars>>

IngestNext ==
    \/ \E fn \in {"twitter-mentions", "periodic-monitoring"},
          tweets \in SearchResults : StoreMentions(fn, tweets)
    \/ \E tweets \in SearchResults : KeywordMentions(tweets)
    \/ StoreResults

SpecIngest == Init /\ [][IngestNext]_vars

----------------------------------------------------------------------------
(* Sentiment: analyzeSentiment of aiService, SentimentService in its two
   versions (services/sentimentService.js and the one that follows the
   Dashboard component in pages/Dashboard.jsx), and analyzeMentionsSentiment
   of the monitoring service.  Scores, confidences and weights are in
   hundredths; a field that may be undefined is a set with at most one
   element; NaN is the empty set. *)

\* a tweet of the sample with what the classifier does for its text: it
\* answers with a label, a confidence and perhaps a score, or the request fails
Samples ==
    [kind : {"classified"}, label : {"positive", "negative", "neutral"},
     confidence : {90}, score : ClassifierScores, engagement : Engagements]
        \cup [kind : {"failed"}, label : {"none"}, confidence : {0},
              score : {{}}, engagement : Engagements]

SampleSeqs == UNION {[1..n -> Samples] : n \in 0..MaxTexts}

RECURSIVE Sum(_, _)
Sum(f, n) == IF n = 0 THEN 0 ELSE f[n] + Sum(f, n - 1)

\* Math.round(a / b) for b > 0
RoundDiv(a, b) == (2 * a + b) \div (2 * b)

\* Math.log10(engagement + 1) for the engagements of the model
Log10(n) == CASE n = 1 -> 0 [] n = 1000 -> 3

\* aiService.analyzeSentiment: the JSON of the classifier, or the object of
\* the catch block, which has no score
analyzeSentiment(text) ==
    IF text.kind = "failed"
    THEN [sentiment |-> "neutral", confidence |-> 50, score |-> {}]
    ELSE [sentiment |-> text.label, confidence |-> text.confidence,
          score |-> text.score]

\* sentimentService.js analyzeSingleText: sentiment, confidence and
\* sentiment_score of the answer are passed on
analyzeSingleText(text) ==
    LET result == analyzeSentiment(text)
    IN  [sentiment |-> result.sentiment, confidence |-> result.confidence,
         score |-> result.score]

sentimentWeights ==
    [positive |-> 60, neutral |-> 0, negative |-> -60]

\* Dashboard.jsx analyzeSingleText: the label is normalised and the score is
\* calculateSentimentScore(label, confidence) = weight * confidence
DashboardSingleText(text) ==
    LET result == analyzeSentiment(text)
    IN  [sentiment |-> result.sentiment,
         confidence |-> IF result.confidence = 0 THEN 50 ELSE result.confidence,
         score |-> {(sentimentWeights[result.sentiment] * result.confidence)
                       \div 100}]

\* batchAnalyzeSentiment: the texts are analysed in slices of batchSize (50)
\* with Promise.allSettled; the promise of analyzeSingleText is always
\* fulfilled, since analyzeSingleText catches what analyzeSentiment throws
batchAnalyzeSentiment(version, ts) ==
    [i \in 1..Len(ts) |->
        IF version = "sentimentService" THEN analyzeSingleText(ts[i])
                                        ELSE DashboardSingleText(ts[i])]

\* calculateConfidence
calculateConfidence(results) ==
    IF Len(results) = 0 THEN 50
    ELSE RoundDiv(Sum([i \in 1..Len(results) |->
                          IF results[i].confidence = 0 THEN 50
                          ELSE results[i].confidence], Len(results)),
                  Len(results))

Count(results, label) ==
    Cardinality({i \in 1..Len(results) : results[i].sentiment = label})

\* sentimentService.js calculateProjectSentiment, includeInfluencers true,
\* tweets without followers
calculateProjectSentiment(tweets, results) ==
    IF Len(tweets) = 0 \/ Len(results) = 0
    THEN [fn |-> "sentimentService", average |-> <<50, 1>>, score |-> {50},
          confidence |-> 50, distribution |-> NoDistribution]
    ELSE LET weight == [i \in 1..Len(tweets) |->
                           100 + 10 * Log10(tweets[i].engagement + 1)]
             defined == \A i \in 1..Len(tweets) : results[i].score # {}
             totalScore ==
                 Sum([i \in 1..Len(tweets) |->
                         (CHOOSE v \in results[i].score : TRUE) * weight[i]],
                     Len(tweets))
             totalWeight == Sum(weight, Len(tweets))
         IN  [fn |-> "sentimentService",
              average |-> IF defined THEN <<totalScore, totalWeight>>
                                     ELSE <<0, 1>>,
              score |-> IF defined THEN {RoundDiv(totalScore, totalWeight)}
                                   ELSE {},
              confidence |-> calculateConfidence(results),
              distribution |-> NoDistribution]

\* Dashboard.jsx calculateProjectSentiment, includeInfluencers true, tweets
\* of influence 0.3; without tweets it returns getMockSentimentAnalysis
DashboardProjectSentiment(tweets, results) ==
    IF Len(tweets) = 0 \/ Len(results) = 0
    THEN [fn |-> "Dashboard", average |-> <<65, 1>>, score |-> {65},
          confidence |-> 82,
          distribution |-> [positive |-> 65, negative |-> 20, neutral |-> 15]]
    ELSE LET weight == [i \in 1..Len(tweets) |->
                           100 + 30 * 2 + 10 * Log10(tweets[i].engagement + 1)]
             totalScore ==
                 Sum([i \in 1..Len(tweets) |->
                         (CHOOSE v \in results[i].score : TRUE) * weight[i]],
                     Len(tweets))
             totalWeight == Sum(weight, Len(tweets))
             totalTweets == Len(tweets)
         IN  [fn |-> "Dashboard",
              average |-> <<totalScore, totalWeight>>,
              score |-> {RoundDiv(totalScore, totalWeight)},
              confidence |-> calculateConfidence(results),
              distribution |->
                  [positive |-> RoundDiv(100 * Count(results, "positive"),
                                         totalTweets),
                   negative |-> RoundDiv(100 * Count(results, "negative"),
                                         totalTweets),
                   neutral  |-> RoundDiv(100 * Count(results, "neutral"),
                                         totalTweets)]]

\* the bucket that calculateSentimentDistribution puts a result in
Bucket(result) ==
    IF result.sentiment = "positive" \/ \E v \in result.score : v > 60
    THEN "positive"
    ELSE IF result.sentiment = "negative" \/ \E v \in result.score : v < 40
    THEN "negative"
    ELSE "neutral"

\* part_004 calculateSentimentDistribution
calculateSentimentDistribution(results) ==
    LET n(bucket) == Cardinality({i \in 1..Len(results) :
                                     Bucket(results[i]) = bucket})
        total == Len(results)
    IN  [positive |-> RoundDiv(100 * n("positive"), total),
         negative |-> RoundDiv(100 * n("negative"), total),
         neutral  |-> RoundDiv(100 * n("neutral"), total)]

\* part_004 analyzeMentionsSentiment of at most 20 mentions: null without
\* results, else the plain averages and the distribution
analyzeMentionsSentiment(mentions) ==
    LET validResults == [i \in 1..Len(mentions) |-> analyzeSingleText(mentions[i])]
        n == Len(validResults)
    IN  IF n = 0 THEN NoAnalysis
        ELSE [fn |-> "monitoring",
              average |->
                  <<Sum([i \in 1..n |->
                          IF validResults[i].score = {} THEN 0
                          ELSE CHOOSE v \in validResults[i].score : TRUE], n),
                    n>>,
              score |-> {},
              confidence |-> RoundDiv(Sum([i \in 1..n |->
                                             validResults[i].confidence], n), n),
              distribution |-> calculateSentimentDistribution(validResults)]

SentimentVersions == {"sentimentService", "Dashboard"}

\* batchAnalyzeSentiment(texts)
BatchAnalyze(version) ==
    /\ sentimentResults' = [version |-> version,
                            results |-> batchAnalyzeSentiment(version, texts)]
    /\ UNCHANGED <<texts, analysis, notifyVars, mentionVars, now, rateLimits,
                   monitorVars, lastCall, alertVars, edgeVars,
                   restVars>>

\* calculateProjectSentiment(tweets, sentimentResults, true) with the results
\* of the batch, as analyzeProjectSentiment calls it
CalculateProjectSentiment ==
    /\ sentimentResults.version # "none"
    /\ analysis' = IF sentimentResults.version = "sentimentService"
                   THEN calculateProjectSentiment(texts, sentimentResults.results)
                   ELSE DashboardProjectSentiment(texts, sentimentResults.results)
    /\ UNCHANGED <<texts, sentimentResults, notifyVars, mentionVars, now,
                   rateLimits, monitorVars, lastCall, alertVars, edgeVars,
                   restVars>>

\* analyzeMentionsSentiment(results.mentions) of processMonitor
AnalyzeMentions ==
    /\ texts # <<>>
    /\ analysis' = analyzeMentionsSentiment(texts)
    /\ UNCHANGED <<texts, sentimentResults, notifyVars, mentionVars, now,
                   rateLimits, monitorVars, lastCall, alertVars, edgeVars,
                   restVars>>

\* any sample, nothing analysed yet
SampleInit ==
    /\ now = Epoch
    /\ rateLimits = RateLimitInit(Epoch)
    /\ lastCall = NoCall
    /\ MonitorInit
    /\ AlertInit
    /\ EdgeInit
    /\ NotifyInit
    /\ MentionInit
    /\ RestInit
    /\ texts \in SampleSeqs
    /\ sentimentResults = [version |-> "none", results |-> <<>>]
    /\ analysis = NoAnalysis

SentimentNext ==
    \/ \E version \in SentimentVersions : BatchAnalyze(version)
    \/ CalculateProjectSentiment
    \/ AnalyzeMentions

SpecSentiment == SampleInit /\ [][SentimentNext]_vars

----------------------------------------------------------------------------
(* updateMonitorData: the histories in monitor.data.  A pass is named by its
   number, which stands for results.timestamp; the mention k of the pass t
   is <<t, k>>. *)

\* arr.slice(0, n)
SliceFirst(arr, n) == SubSeq(arr, 1, IF Len(arr) < n THEN Len(arr) ELSE n)

SliceLast_KeepsFirst(arr, n) == SliceFirst(arr, n)

\* arr.slice(-n)
SliceLast(arr, n) ==
    SubSeq(arr, IF Len(arr) < n THEN 1 ELSE Len(arr) - n + 1, Len(arr))

HasSentiment(t) == t % passInput.sentimentEvery = 0

\* updateMonitorData(monitor, results) for the pass number passCount + 1
UpdateHistories ==
    /\ passCount < MaxPasses
    /\ LET t == passCount + 1
           mentions == [k \in 1..passInput.mentions |-> <<t, k>>]
           fired == [k \in 1..passInput.alerts |-> t]
       IN  /\ passCount' = t
           /\ data' =
                  [recentMentions |->
                       SliceFirst(SliceFirst(mentions, 50) \o data.recentMentions,
                                  1000),
                   sentimentHistory |->
                       IF HasSentiment(t)
                       THEN SliceLast(Append(data.sentimentHistory, t), 100)
                       ELSE data.sentimentHistory,
                   volumeHistory |-> SliceLast(Append(data.volumeHistory, t), 100),
                   alertHistory |->
                       IF passInput.alerts > 0
                       THEN SliceLast(data.alertHistory \o fired, 50)
                       ELSE data.alertHistory]
    /\ UNCHANGED <<passInput, coreVars, filterVars, monitoring, worker, jobs>>

\* a new monitor and what its passes will find
CoreInit ==
    /\ now = Epoch
    /\ rateLimits = RateLimitInit(Epoch)
    /\ lastCall = NoCall
    /\ MonitorInit
    /\ AlertInit
    /\ EdgeInit
    /\ NotifyInit
    /\ MentionInit
    /\ SentimentInit

HistorySpecInit ==
    /\ CoreInit
    /\ FilterInit
    /\ MonitoringInit
    /\ WorkerInit
    /\ JobsInit
    /\ data = [recentMentions |-> <<>>, sentimentHistory |-> <<>>,
               volumeHistory |-> <<>>, alertHistory |-> <<>>]
    /\ passInput \in PassInputs
    /\ passCount = 0

SpecHistory == HistorySpecInit /\ [][UpdateHistories]_vars

Min(a, b) == IF a < b THEN a ELSE b

\* the sentiment results up to the pass t
SentimentPasses(t) == t \div passInput.sentimentEvery

\* C31: the histories are bounded (sentimentHistory and volumeHistory by 100,
\* alertHistory by 50, recentMentions by 1000), and each holds the newest
\* entries in order of their passes, without a gap: volumeHistory,
\* sentimentHistory and alertHistory oldest first and ending with the last
\* pass that added to them, recentMentions newest first
BoundedHistories ==
    LET v == data.volumeHistory
        h == data.sentimentHistory
        a == data.alertHistory
        r == data.recentMentions
        m == Min(passInput.mentions, 50)
    IN  /\ Len(v) = Min(passCount, 100)
        /\ \A i \in DOMAIN v : v[i] = passCount - Len(v) + i
        /\ Len(h) = Min(SentimentPasses(passCount), 100)
        /\ \A i \in DOMAIN h :
               h[i] = (SentimentPasses(passCount) - Len(h) + i)
                          * passInput.sentimentEvery
        /\ Len(a) = Min(passCount * passInput.alerts, 50)
        /\ \A i \in DOMAIN a :
               a[i] = passCount - ((Len(a) - i) \div passInput.alerts)
        /\ Len(r) = Min(passCount * m, 1000)
        /\ \A i \in DOMAIN r :
               r[i] = <<passCount - ((i - 1) \div m), ((i - 1) % m) + 1>>

\* every history is full and has dropped its oldest entries
HistoriesFull ==
    /\ Len(data.volumeHistory) = 100 /\ data.volumeHistory[1] > 1
    /\ Len(data.sentimentHistory) = 100 /\ data.sentimentHistory[1] > 1
    /\ Len(data.alertHistory) = 50 /\ data.alertHistory[1] > 1
    /\ Len(data.recentMentions) = 1000 /\ data.recentMentions[1000][1] > 1

----------------------------------------------------------------------------
(* filterMentions: the filters of a monitor applied to a search response.
   A value that may be undefined is a set of at most one value. *)

\* createMonitor: filters.x || default, then ...filters
MonitorFilters(cfg) ==
    [minFollowers |-> IF cfg.minFollowers = {} THEN {100} ELSE cfg.minFollowers,
     minEngagement |-> IF cfg.minEngagement = {} THEN {5} ELSE cfg.minEngagement,
     excludeRetweets |->
         IF cfg.excludeRetweets = {} THEN {FALSE} ELSE cfg.excludeRetweets,
     languages |-> IF cfg.languages = {} THEN {{"en"}} ELSE cfg.languages]

\* retweet_count * 3 + like_count + reply_count * 2 + quote_count * 2
calculateEngagement(tweet) == tweet.like_count

\* formatTweetData: the mention made of a tweet of the response
formatTweetData(tweet) ==
    [text |-> IF tweet.retweet THEN "RT @" ELSE "",
     author |-> [followers |-> tweet.followers_count],
     metrics |-> [likes |-> tweet.like_count],
     engagement |-> calculateEngagement(tweet)]

\* obj.field, undefined when the object has no such property
Field(obj, field) == IF field \in DOMAIN obj THEN {obj[field]} ELSE {}

\* a < b of two values that may be undefined: false when one of them is
Less(a, b) == \E x \in a, y \in b : x < y

\* the callback of mentions.filter in filterMentions
PassesFilters(mention, filters) ==
    /\ ~(filters.minFollowers # {0}
         /\ Less(Field(mention.author, "followers_count"), filters.minFollowers))
    /\ ~(filters.minEngagement # {0}
         /\ Less(Field(mention, "engagement"), filters.minEngagement))
    /\ ~(filters.excludeRetweets = {TRUE} /\ mention.text = "RT @")
    /\ \A languages \in filters.languages :
           languages # {} => Field(mention, "lang") \subseteq languages
                             /\ Field(mention, "lang") # {}

RECURSIVE Filter(_, _)
Filter(mentions, filters) ==
    IF mentions = <<>> THEN <<>>
    ELSE (IF PassesFilters(Head(mentions), filters)
          THEN <<Head(mentions)>> ELSE <<>>)
             \o Filter(Tail(mentions), filters)

\* searchMentions returns the formatted tweets
searchMentions(tweets) == [i \in DOMAIN tweets |-> formatTweetData(tweets[i])]

filterMentions(mentions, filters) == Filter(mentions, filters)

\* processMonitor for one keyword: the filtered mentions are what the pass
\* scores and counts
FilterPass ==
    /\ ~scored.done
    /\ LET filteredMentions ==
               filterMentions(searchMentions(filterCase.tweets),
                              MonitorFilters(filterCase.cfg))
       IN  scored' = [done |-> TRUE, mentions |-> filteredMentions,
                      volume |-> Len(filteredMentions)]
    /\ UNCHANGED <<filterCase, coreVars, historyVars, monitoring, worker, jobs>>

\* a monitor with some filters and the response of a search
FilterSpecInit ==
    /\ CoreInit
    /\ HistoryInit
    /\ MonitoringInit
    /\ WorkerInit
    /\ JobsInit
    /\ filterCase \in [cfg : FilterConfigs,
                        tweets : UNION {[1..n -> RawTweets] : n \in 0..MaxTweets}]
    /\ scored = [done |-> FALSE, mentions |-> <<>>, volume |-> 0]

SpecFilter == FilterSpecInit /\ [][FilterPass]_vars

\* the filters as the monitor states them, on the tweet of the response
Satisfies(tweet, filters) ==
    /\ \A n \in filters.minFollowers : tweet.followers_count >= n
    /\ \A n \in filters.minEngagement : calculateEngagement(tweet) >= n
    /\ ~(filters.excludeRetweets = {TRUE} /\ tweet.retweet)
    /\ \A languages \in filters.languages :
           languages # {} => tweet.lang \in languages

RECURSIVE Satisfying(_, _)
Satisfying(tweets, filters) ==
    IF tweets = <<>> THEN <<>>
    ELSE (IF Satisfies(Head(tweets), filters)
          THEN <<formatTweetData(Head(tweets))>> ELSE <<>>)
             \o Satisfying(Tail(tweets), filters)

\* C32 as stated: the mentions scored and counted are exactly the mentions
\* of the response that satisfy all filters of the monitor
FiltersBeforeScoring ==
    scored.done =>
        /\ scored.mentions =
               Satisfying(filterCase.tweets, MonitorFilters(filterCase.cfg))
        /\ scored.volume = Len(scored.mentions)

----------------------------------------------------------------------------
(* MonitoringService: startMonitoring, stopMonitoring and the interval.  An
   interval id is a number from 1; monitoringIntervalId 0 is null. *)

\* startMonitoring() up to its await of the first cycle
StartMonitoring ==
    /\ monitoring.started < MaxStarts
    /\ monitoring' =
          IF monitoring.isMonitoring THEN monitoring
          ELSE [monitoring EXCEPT !.isMonitoring = TRUE,
                                  !.starting = @ + 1,
                                  !.started = @ + 1]
    /\ UNCHANGED <<coreVars, historyVars, filterVars, worker, jobs>>

\* the first cycle of a startMonitoring call is over: the call goes on and
\* sets the interval
StartMonitoringResumes ==
    /\ monitoring.starting > 0
    /\ LET id == monitoring.intervals + 1
       IN  monitoring' = [monitoring EXCEPT !.starting = @ - 1,
                                           !.monitoringIntervalId = id,
                                           !.intervals = id,
                                           !.timers = @ \cup {id}]
    /\ UNCHANGED <<coreVars, historyVars, filterVars, worker, jobs>>

\* stopMonitoring()
StopMonitoring ==
    /\ monitoring' =
          IF ~monitoring.isMonitoring THEN monitoring
          ELSE [monitoring EXCEPT
                   !.isMonitoring = FALSE,
                   !.timers = @ \ {monitoring.monitoringIntervalId},
                   !.monitoringIntervalId = 0]
    /\ UNCHANGED <<coreVars, historyVars, filterVars, worker, jobs>>

\* an interval fires and its callback starts performMonitoringCycle;
\* lastCycle says whether the service was monitoring then
IntervalCycle(id) ==
    /\ id \in monitoring.timers
    /\ monitoring.cycles < MaxCycles
    /\ monitoring' =
          [monitoring EXCEPT
              !.cycles = @ + 1,
              !.lastCycle = IF monitoring.isMonitoring THEN "monitoring"
                            ELSE "stopped"]
    /\ UNCHANGED <<coreVars, historyVars, filterVars, worker, jobs>>

MonitoringSpecInit ==
    /\ CoreInit
    /\ HistoryInit
    /\ FilterInit
    /\ MonitoringInit
    /\ WorkerInit
    /\ JobsInit

MonitoringNext ==
    \/ StartMonitoring
    \/ StartMonitoringResumes
    \/ StopMonitoring
    \/ \E id \in 1 .. MaxStarts : IntervalCycle(id)

SpecMonitoring == MonitoringSpecInit /\ [][MonitoringNext]_vars

\* C34 as stated: there is at most one interval, none while isMonitoring is
\* false, and no cycle starts while the service is stopped, also when
\* stopMonitoring is called during the first cycle of startMonitoring
StartStopDiscipline ==
    /\ Cardinality(monitoring.timers) <= 1
    /\ ~monitoring.isMonitoring => monitoring.timers = {}
    /\ monitoring.lastCycle # "stopped"

----------------------------------------------------------------------------
(* The service worker sw-mention-monitor.js and setupServiceWorker.  A
   message is the object given to postMessage, a record with the properties
   it was built with. *)

\* the states the main thread can be in: some monitors, active or not
MainMonitors ==
    UNION {[ids -> BOOLEAN] : ids \in SUBSET (1..NumWorkerMonitors)}

\* the message that setupServiceWorker posts
InitMessage(monitors) == [type |-> "INIT_MONITORS", monitors |-> monitors]

\* setupServiceWorker: the registration resolves; the message is posted if
\* registration.active is set
SetupServiceWorker(active) ==
    /\ worker.posted < MaxPosts
    /\ worker' = IF active
                 THEN [worker EXCEPT !.inbox = Append(@, InitMessage(worker.monitors)),
                                     !.posted = @ + 1]
                 ELSE worker
    /\ UNCHANGED <<coreVars, historyVars, filterVars, monitoring, jobs>>

\* initializeMonitors(monitors)
initializeMonitors(monitors) ==
    [id \in {m \in DOMAIN monitors : monitors[m]} |->
        [isActive |-> TRUE, lastBackgroundCheck |-> "null"]]

\* the message listener: "const { type, data } = event.data", then the
\* switch; data.monitors of an undefined data throws a TypeError
OnMessage ==
    /\ worker.inbox # <<>>
    /\ LET message == Head(worker.inbox)
       IN  worker' =
              IF message.type = "INIT_MONITORS"
              THEN IF "data" \in DOMAIN message
                   THEN [worker EXCEPT
                            !.inbox = Tail(@),
                            !.handled = @ + 1,
                            !.activeMonitors =
                                initializeMonitors(message.data.monitors)]
                   ELSE [worker EXCEPT !.inbox = Tail(@),
                                       !.handled = @ + 1,
                                       !.errors = @ + 1]
              ELSE [worker EXCEPT !.inbox = Tail(@), !.handled = @ + 1]
    /\ UNCHANGED <<coreVars, historyVars, filterVars, monitoring, jobs>>

WorkerSpecInit ==
    /\ CoreInit
    /\ HistoryInit
    /\ FilterInit
    /\ MonitoringInit
    /\ JobsInit
    /\ \E monitors \in MainMonitors :
          worker = [monitors |-> monitors, inbox |-> <<>>,
                    activeMonitors |-> <<>>, posted |-> 0, handled |-> 0,
                    errors |-> 0]

WorkerNext ==
    \/ \E active \in BOOLEAN : SetupServiceWorker(active)
    \/ OnMessage

SpecWorker == WorkerSpecInit /\ [][WorkerNext]_vars

\* C39 as stated: once the worker has handled the INIT_MONITORS messages
\* posted to it, its activeMonitors are exactly the active monitors of the
\* main thread, each with lastBackgroundCheck = null, and no message has
\* raised an error
WorkerInitProtocol ==
    (worker.handled > 0 /\ worker.inbox = <<>>) =>
        /\ worker.errors = 0
        /\ worker.activeMonitors = initializeMonitors(worker.monitors)

----------------------------------------------------------------------------
(* periodic-monitoring: the monitoring_jobs record of every configuration it
   processes *)

\* the awaited steps between the insert of the job record and its update
JobSteps == {"mentions", "sentiment", "alerts", "lastCheck"}

\* the step after a step that returned; analyzeMentionSentiment is called
\* only if there are new mentions
StepAfter(pc, newMentions) ==
    CASE pc = "mentions" -> IF newMentions THEN "sentiment" ELSE "alerts"
      [] pc = "sentiment" -> "alerts"
      [] pc = "alerts" -> "lastCheck"
      [] pc = "lastCheck" -> "complete"

\* the loop goes on with the next configuration, or the run returns
NextConfig(j) ==
    IF j.left > 1
    THEN [j EXCEPT !.left = @ - 1, !.pc = "insert", !.job = 0]
    ELSE [j EXCEPT !.left = 0, !.pc = "idle", !.job = 0]

\* a request arrives and the select finds n configurations to process
Invoke(n) ==
    /\ jobs.pc = "idle"
    /\ jobs.runs < MaxRuns
    /\ jobs' = [jobs EXCEPT !.pc = "insert", !.left = n, !.runs = @ + 1]
    /\ UNCHANGED <<coreVars, historyVars, filterVars, monitoring, worker>>

\* "Create monitoring job record": a row with status 'running'
InsertJob ==
    /\ jobs.pc = "insert"
    /\ jobs' = [jobs EXCEPT !.rows = Append(@, "running"),
                            !.job = Len(jobs.rows) + 1,
                            !.pc = "mentions"]
    /\ UNCHANGED <<coreVars, historyVars, filterVars, monitoring, worker>>

\* one of the steps settles: it returns, or it throws and the catch block of
\* the configuration pushes an 'error' result
JobStep(returns, newMentions) ==
    /\ jobs.pc \in JobSteps
    /\ jobs' = IF returns
               THEN [jobs EXCEPT !.pc = StepAfter(jobs.pc, newMentions)]
               ELSE NextConfig(jobs)
    /\ UNCHANGED <<coreVars, historyVars, filterVars, monitoring, worker>>

\* "Complete the job": the update to status 'completed'
CompleteJob ==
    /\ jobs.pc = "complete"
    /\ jobs' = NextConfig([jobs EXCEPT !.rows[jobs.job] = "completed"])
    /\ UNCHANGED <<coreVars, historyVars, filterVars, monitoring, worker>>

JobsNext ==
    \/ \E n \in 1..NumConfigs : Invoke(n)
    \/ InsertJob
    \/ \E returns, newMentions \in BOOLEAN : JobStep(returns, newMentions)
    \/ CompleteJob

JobsSpecInit ==
    /\ CoreInit
    /\ HistoryInit
    /\ FilterInit
    /\ MonitoringInit
    /\ WorkerInit
    /\ JobsInit

SpecJobs == JobsSpecInit /\ [][JobsNext]_vars

\* every request of the database and every step settles
SpecJobsFair ==
    /\ SpecJobs
    /\ WF_vars(InsertJob)
    /\ WF_vars(\E returns, newMentions \in BOOLEAN : JobStep(returns, newMentions))
    /\ WF_vars(CompleteJob)

\* C40 as stated: every job record created with status 'running' reaches
\* the status 'completed' or 'failed'
JobRecordsTerminate ==
    \A i \in 1..(NumConfigs * MaxRuns) :
        (i \in DOMAIN jobs.rows /\ jobs.rows[i] = "running") ~>
            (i \in DOMAIN jobs.rows
                /\ jobs.rows[i] \in {"completed", "failed"})

----------------------------------------------------------------------------
(* The edge functions twitter-mentions and periodic-monitoring: both read the
   twitter/search row of api_rate_limits, send one search request to Twitter
   and write the row back *)

EdgeFunctions == {"twitter-mentions", "periodic-monitoring"}

\* (read || 300) - 1: the value both functions write to requests_remaining
WriteBack(read) == (IF read = 0 THEN 300 ELSE read) - 1

RemoveAt(s, i) == SubSeq(s, 1, i - 1) \o SubSeq(s, i + 1, Len(s))

\* a call reads the row; with nothing left it answers without a request to
\* Twitter, otherwise it sends the search request and waits for the response
EdgeCall(fn) ==
    /\ Len(invocations) < MaxInvocations
    /\ searchesIssued < MaxSearches
    /\ IF requestsRemaining <= 0
       THEN UNCHANGED <<invocations, searchesIssued>>
       ELSE /\ invocations' = Append(invocations,
                                     [fn |-> fn, read |-> requestsRemaining])
            /\ searchesIssued' = searchesIssued + 1
    /\ UNCHANGED <<requestsRemaining, resetTime, decrements, now, rateLimits,
                   monitorVars, lastCall, alertVars, extraVars>>

\* Twitter answers the call i with an ok response: the row is written with
\* the value the call read, less one
EdgeResponseOk(i) ==
    /\ i \in 1..Len(invocations)
    /\ requestsRemaining' = WriteBack(invocations[i].read)
    /\ resetTime' = IF invocations[i].fn = "twitter-mentions"
                    THEN now + EdgeWindow
                    ELSE resetTime
    /\ decrements' = decrements + 1
    /\ invocations' = RemoveAt(invocations, i)
    /\ UNCHANGED <<searchesIssued, now, rateLimits, monitorVars, lastCall, alertVars, extraVars>>

\* Twitter answers the call i with an error status: the function throws
\* before it writes the row
EdgeResponseError(i) ==
    /\ i \in 1..Len(invocations)
    /\ invocations' = RemoveAt(invocations, i)
    /\ UNCHANGED <<requestsRemaining, resetTime, searchesIssued, decrements, now,
                   rateLimits, monitorVars, lastCall, alertVars, extraVars>>

\* time passes between the calls and the responses
EdgeAdvance(d) ==
    /\ now + d <= Epoch + EdgeHorizon
    /\ now' = now + d
    /\ UNCHANGED <<monitorVars, rateLimits, otherVars>>

EdgeNext ==
    \/ \E fn \in EdgeFunctions : EdgeCall(fn)
    \/ \E i \in 1..MaxInvocations : EdgeResponseOk(i)
    \/ \E i \in 1..MaxInvocations : EdgeResponseError(i)
    \/ EdgeAdvance(EdgeWindow)

SpecEdge == Init /\ [][EdgeNext]_vars

\* the edge functions keep being called (the periodic job runs every five
\* minutes), Twitter answers every request and time passes
SpecEdgeFair ==
    /\ SpecEdge
    /\ WF_vars(\E fn \in EdgeFunctions : EdgeCall(fn))
    /\ WF_vars(\E i \in 1..MaxInvocations : EdgeResponseOk(i))
    /\ WF_vars(EdgeAdvance(EdgeWindow))

----------------------------------------------------------------------------
(* Claims about the cooldown *)

Decided == dec.id # 0

\* C1 as stated: two passes of a monitor within the cooldown window produce
\* at most one alert in total (the pass before the deciding one fired at
\* least one alert when lastAlert is its timestamp)
CooldownAtMostOneAlert ==
    Decided =>
        \A l \in dec.prevProcessed :
            dec.at - l < alertCooldown =>
                dec.n + (IF dec.prevAlert = {l} THEN 1 ELSE 0) <= 1

\* C1 amended: a pass fires alerts only if its deciding step comes at least
\* alertCooldown after the timestamp of the last pass of the monitor that
\* fired, so of two passes within the window at most one fires
CooldownOneFiringPass ==
    (Decided /\ dec.n > 0) =>
        \A f \in dec.prevFire : dec.at - f >= alertCooldown

\* C1 witness: a pass within the window for which two conditions were true
\* and that fired nothing
CooldownSuppressedPass ==
    /\ Decided
    /\ dec.qual >= 2
    /\ dec.n = 0
    /\ \E f \in dec.prevFire : dec.at - f < alertCooldown

\* C2: with a true condition, a pass inside the window of the last firing
\* pass fires nothing and leaves lastAlert as it was, and a pass at or after
\* its end fires
CooldownExpiry ==
    (Decided /\ dec.qual > 0) =>
        \A f \in dec.prevFire :
            /\ (dec.n = 0) <=> (dec.at - f < alertCooldown)
            /\ dec.n = 0 => activeMonitors[dec.id].stats.lastAlert = {f}

\* C2 witness: a pass fired at t, a pass that decided at t + 120 s was
\* suppressed with a true condition, and the pass deciding at t + 310 s fires
CooldownScenarioC ==
    /\ Decided
    /\ dec.n > 0
    /\ \E f \in dec.prevFire :
          /\ dec.at = f + 310000
          /\ dec.prevSup = {f + 120000}

----------------------------------------------------------------------------
(* Claims about processMonitor and the processing loop *)

\* C5: a pass has issued at most as many fetches as it reserved, and a pass
\* whose reservation was denied has returned without a fetch and without
\* alerts
GatedByReservation ==
    \A k \in DOMAIN passes :
        /\ passes[k].kw <= passes[k].reserved
        /\ passes[k].outcome = "denied" =>
              /\ passes[k].pc = "done"
              /\ passes[k].kw = 0
              /\ passes[k].alerts = 0
              /\ dec.id # passes[k].id

\* C5 witness: a pass was denied while another pass of the batch fetches
\* under its reservation
ReservationDenied ==
    \E k, j \in DOMAIN passes :
        /\ passes[k].outcome = "denied"
        /\ passes[j].outcome = "running"
        /\ passes[j].kw = 1

\* C6: no two passes in progress belong to the same monitor id
NoReentrantEvaluation ==
    \A k, j \in DOMAIN passes :
        (k # j /\ passes[k].pc # "done" /\ passes[j].pc # "done")
            => passes[k].id # passes[j].id

\* C6 witness: a monitor is queued again while its pass is in progress and
\* the scheduler tick is due
QueuedWhileInFlight ==
    \E k \in DOMAIN passes :
        /\ passes[k].pc # "done"
        /\ passes[k].id \in Range(monitoringQueue)
        /\ now >= nextTick

InFlight == {k \in DOMAIN passes : passes[k].pc # "done"}

\* the number of ids that splice(0, batchSize) takes from a queue of length n
Taken(n) == IF n < batchSize THEN n ELSE batchSize

\* C11: a processQueue run takes the first min(batchSize, queue length) ids
\* of the queue in their order, starts passes for those and leaves the rest
\* queued; never more than batchSize passes are in flight
BoundedFifoBatch ==
    /\ [](Cardinality(InFlight) <= batchSize)
    /\ [][(~isProcessing /\ isProcessing') =>
            /\ Len(passes') = Taken(Len(monitoringQueue))
            /\ \A k \in 1 .. Len(passes') : passes'[k].id = monitoringQueue[k]
            /\ monitoringQueue' = SubSeq(monitoringQueue, Len(passes') + 1,
                                         Len(monitoringQueue))]_vars

\* C11 witness: the second batch of a queue of batchSize + 1 monitors is in
\* flight: the monitor left over by the first batch, then the re-added ones
\* in their order, the last of which stays queued
SecondBatchInFlight ==
    /\ Len(passes) = batchSize
    /\ Cardinality(InFlight) = batchSize
    /\ passes[1].id = batchSize + 1
    /\ \A k \in 2 .. batchSize : passes[k].id = k - 1
    /\ monitoringQueue = <<batchSize>>

\* C12: a step in which the pass of one monitor fails changes no other pass,
\* no monitor and no storage entry; a pass that decided has committed its
\* own results; and the end of a batch resets isProcessing and queues every
\* monitor of the batch that is registered and active, failed or not
FailureIsolated ==
    /\ []((Decided /\ dec.live) =>
             activeMonitors[dec.id].stats.lastProcessed = {dec.ts})
    /\ [][/\ \A k \in DOMAIN passes :
                (/\ passes[k].pc # "done"
                 /\ k \in DOMAIN passes'
                 /\ passes'[k].outcome = "failed")
                => (/\ \A j \in DOMAIN passes : (j # k => passes'[j] = passes[j])
                    /\ activeMonitors' = activeMonitors
                    /\ storage' = storage
                    /\ monitoringQueue' = monitoringQueue)
          /\ (passes # <<>> /\ passes' = <<>>) =>
               /\ ~isProcessing'
               /\ \A k \in DOMAIN passes :
                     ((/\ passes[k].id \in DOMAIN activeMonitors
                       /\ activeMonitors[passes[k].id].isActive)
                      => passes[k].id \in Range(monitoringQueue'))]_vars

\* C12 witness: on the second tick a monitor whose first pass failed (it has
\* committed nothing) is evaluated again, next to a monitor whose first pass
\* committed its results
FailedThenEvaluatedAgain ==
    \E k, j \in DOMAIN passes :
        /\ passes[k].outcome = "running"
        /\ passes[k].ts = Epoch + 2 * processingInterval
        /\ activeMonitors[passes[k].id].stats.lastProcessed = {}
        /\ activeMonitors[passes[j].id].stats.lastProcessed = {Epoch + processingInterval}

\* C13 as stated: a batch that has started ends, whatever the external calls
\* of its passes do
HungCallBatchEnds == isProcessing ~> ~isProcessing

\* C14 as stated: a pass one of whose fetches met a provider error fires no
\* alert and leaves the last-processed timestamp of the monitor as it was
SourceUnavailableNoData ==
    (Decided /\ dec.unavail) =>
        /\ dec.n = 0
        /\ activeMonitors[dec.id].stats.lastProcessed = dec.prevProcessed

\* C15 as stated: the mention_spike alert of a pass has severity high when
\* the volume is greater than twice the threshold and medium otherwise
SpikeSeverityRule ==
    (Decided /\ dec.spike # "none") =>
        dec.spike = (IF dec.volume > 2 * mentionSpike THEN "high" ELSE "medium")

\* C16 as stated: createMonitor registers, saves and queues nothing for a
\* configuration without a keyword
CreateValidated ==
    /\ \A id \in DOMAIN activeMonitors : activeMonitors[id].nKeywords >= 1
    /\ \A id \in DOMAIN storage : storage[id].nKeywords >= 1
    /\ \A id \in Range(monitoringQueue) :
          id \in DOMAIN activeMonitors => activeMonitors[id].nKeywords >= 1

\* C18: a pass in flight keeps the keywords (and the reservation) it took
\* from the monitor at its start, it completes after exactly that many
\* fetches, and its completion leaves the keywords and the active flag of
\* the registered monitor as updateMonitor set them
ConfigSnapshot ==
    [][\A k \in DOMAIN passes :
          (passes[k].pc # "done" /\ k \in DOMAIN passes') =>
              /\ passes'[k].pc # "done" =>
                    /\ passes'[k].nKeywords = passes[k].nKeywords
                    /\ passes'[k].reserved = passes[k].reserved
              /\ passes'[k].outcome = "completed" =>
                    /\ passes'[k].kw = passes[k].nKeywords
                    /\ passes[k].id \in DOMAIN activeMonitors =>
                          /\ activeMonitors'[passes[k].id].nKeywords
                                = activeMonitors[passes[k].id].nKeywords
                          /\ activeMonitors'[passes[k].id].isActive
                                = activeMonitors[passes[k].id].isActive]_vars

\* C18 witness: a pass that started with one keyword has completed after
\* one fetch and saved the object it held, while updateMonitor had given the
\* registered monitor other keywords in between
UpdatedDuringPass ==
    \E k \in DOMAIN passes :
        /\ passes[k].outcome = "completed"
        /\ passes[k].kw = 1
        /\ passes[k].id \in DOMAIN activeMonitors
        /\ activeMonitors[passes[k].id].nKeywords = TwitterRequests + 1
        /\ passes[k].id \in DOMAIN storage
        /\ storage[passes[k].id].nKeywords = 1
        /\ activeMonitors[passes[k].id].stats.lastProcessed # {}

\* C19 as stated: when no pass is in flight and no API call is pending, every
\* storage entry belongs to a registered monitor and is active only if the
\* registered monitor is
StorageAgreesWithRegistry ==
    (InFlight = {} /\ pending = <<>>) =>
        \A id \in DOMAIN storage :
            /\ id \in DOMAIN activeMonitors
            /\ storage[id].isActive => activeMonitors[id].isActive

\* C20 as stated: the check and the decrement of requests_remaining act as
\* one operation: every call that wrote the row lowered it by one, and the
\* search requests sent to Twitter never exceed the budget the row recorded
RateLimitRowAtomic ==
    /\ requestsRemaining = EdgeBudget - decrements
    /\ searchesIssued <= EdgeBudget

\* C21 as stated: once the budget of the row is used up and its reset time
\* has passed, the row gets requests to spend again
RowWindowReset ==
    (requestsRemaining <= 0 /\ now >= resetTime) ~> (requestsRemaining > 0)

\* a notification that is neither queued nor being delivered
Left(id) ==
    /\ \A i \in 1..Len(notificationQueue) : notificationQueue[i] # id
    /\ notifier.id = id => notifier.pc = "delay"

WebhooksReceivePosts ==
    lastDispatch.alerts > 0 =>
        lastDispatch.posts = lastDispatch.alerts * lastDispatch.webhooks

\* C24 as stated: on every webhook delivery path a response that is not 2xx
\* is a failure that is retried or, at the cap, given up; it is never a
\* successful delivery
WebhookFailureDetected ==
    (lastWebhook.path # "none" /\ lastWebhook.status # 0
        /\ ~Ok(lastWebhook.status)) =>
            lastWebhook.outcome \in {"retry", "failed"}

\* C25 as stated: twitter_mentions holds one row for every ingested tweet
\* id, with the fields of its last ingestion, and the monitor has stored and
\* counted every mention it was given exactly once
MentionIngestedOnce ==
    /\ \A id \in TweetIds :
           lastIngested[id] # 0 =>
               {r \in twitterMentions : r.tweet_id = id}
                   = {[tweet_id |-> id, fields |-> lastIngested[id]]}
    /\ monitorData.totalMentions + monitorData.volume
           = Cardinality(monitorData.seen)
    /\ Len(monitorData.mentions) + Len(monitorData.recentMentions)
           = Cardinality(monitorData.seen)

\* C26 as stated: batchAnalyzeSentiment returns one result per text, in the
\* order of the texts; the result of a text whose classification failed is
\* neutral with confidence 0.5 and score 0.5, and the result of any other
\* text is what its classification alone gives
BatchDegradesPerItem ==
    sentimentResults.version # "none" =>
        /\ Len(sentimentResults.results) = Len(texts)
        /\ \A i \in 1..Len(texts) :
               sentimentResults.results[i] =
                   IF texts[i].kind = "failed"
                   THEN [sentiment |-> "neutral", confidence |-> 50,
                         score |-> {50}]
                   ELSE batchAnalyzeSentiment(sentimentResults.version,
                                              <<texts[i]>>)[1]

\* the percentage of the mentions of the sample that carry the label
LabelPct(label) ==
    RoundDiv(100 * Cardinality({i \in 1..Len(texts) :
                                   analyzeSingleText(texts[i]).sentiment = label}),
             Len(texts))

\* C27 as stated: the distribution reported for a sample is the percentage
\* of its mentions per label, whatever their scores and weights
DistributionByLabel ==
    (analysis.fn \in {"Dashboard", "monitoring"} /\ texts # <<>>) =>
        analysis.distribution = [positive |-> LabelPct("positive"),
                                 negative |-> LabelPct("negative"),
                                 neutral  |-> LabelPct("neutral")]

\* C28 as stated: calculateProjectSentiment gives a score between 0 and 1
\* for a sample whose mentions all have scores between 0 and 1, and score
\* 0.5 with confidence 0.5 for an empty sample
WeightedScoreBound ==
    analysis.fn \in SentimentVersions =>
        LET results == batchAnalyzeSentiment(analysis.fn, texts)
        IN  /\ texts = <<>> =>
                   (analysis.score = {50} /\ analysis.confidence = 50)
            /\ (/\ texts # <<>>
                /\ \A i \in 1..Len(texts) :
                       results[i].score # {} /\ results[i].score \subseteq 0..100)
                   => (analysis.score # {} /\ analysis.score \subseteq 0..100)

\* C29 as stated: the searches of a pass of a monitor that was processed
\* before start at the timestamp of its previous pass; only a monitor that
\* was never processed is searched over the default window
IncrementalFetchWindow ==
    Decided => dec.startTime = dec.prevProcessed

\* C30 as stated: a pass that completes without firing an alert leaves
\* lastAlert and the sentiment baseline (stats.avgSentiment) of its monitor
\* as they were
BaselineMovesOnlyOnFire ==
    [][\A i \in DOMAIN passes \cap DOMAIN passes' :
          (/\ passes[i].pc # "done"
           /\ passes'[i].pc = "done"
           /\ passes'[i].outcome = "completed"
           /\ passes'[i].alerts = 0
           /\ passes[i].id \in DOMAIN activeMonitors)
          => /\ activeMonitors'[passes[i].id].stats.lastAlert
                    = activeMonitors[passes[i].id].stats.lastAlert
             /\ activeMonitors'[passes[i].id].stats.avgSentiment
                    = activeMonitors[passes[i].id].stats.avgSentiment]_vars

\* the monitor of the pass p is registered, is the object p holds and is active
Live(p) ==
    /\ ~p.orphan
    /\ p.id \in DOMAIN activeMonitors
    /\ activeMonitors[p.id].isActive

\* C8 as stated: a pass that completes for a monitor that is no longer
\* active changes neither the registry nor the storage and fires no alert
CancelledPassCommitsNothing ==
    [][\A k \in DOMAIN passes :
          (/\ passes[k].pc # "done"
           /\ ~Live(passes[k])
           /\ k \in DOMAIN passes'
           /\ passes'[k].outcome = "completed")
          => (/\ activeMonitors' = activeMonitors
              /\ storage' = storage
              /\ passes'[k].alerts = 0)]_vars

Registered(monitorId) ==
    /\ monitorId \in DOMAIN activeMonitors
    /\ activeMonitors[monitorId].isActive

\* C9: a pass starts to fetch only for a monitor that is registered and
\* active; deleteMonitor and the end of toggleMonitor(id, false) leave the id
\* out of the queue; and the end of a batch queues its monitors that are
\* registered and active and no others
CancellationStopsEvaluation ==
    [][/\ \A k \in DOMAIN passes' :
             (k \notin DOMAIN passes /\ passes'[k].outcome = "running")
                 => Registered(passes'[k].id)
       /\ \A id \in DOMAIN activeMonitors :
             id \notin DOMAIN activeMonitors' => id \notin Range(monitoringQueue')
       /\ (/\ pending # <<>>
           /\ Head(pending).op = "remove"
           /\ pending' = Tail(pending))
             => Head(pending).id \notin Range(monitoringQueue')
       /\ (BatchReady /\ ~isProcessing') =>
             \A k \in DOMAIN passes :
                 IF Registered(passes[k].id)
                 THEN passes[k].id \in Range(monitoringQueue')
                 ELSE passes[k].id \in Range(monitoringQueue')
                         => passes[k].id \in Range(monitoringQueue)]_vars

\* C9 witness: a monitor was deactivated during its pass (the pass saved the
\* object it held, which is active), its batch has ended and the monitor is
\* not queued
DeactivatedNotRequeued ==
    /\ ~isProcessing
    /\ pending = <<>>
    /\ \E id \in DOMAIN activeMonitors :
          /\ ~activeMonitors[id].isActive
          /\ id \in DOMAIN storage
          /\ storage[id].isActive
          /\ storage[id].stats.lastProcessed # {}
          /\ id \notin Range(monitoringQueue)

----------------------------------------------------------------------------
(* Claims about AlertService *)

\* C17: every stored alert satisfies validateAlert, and a createAlert or
\* updateAlert call that throws leaves the alerts (and with them the persisted
\* map) and the interval timers as they were
AllOrNothingAlerts ==
    /\ [](\A a \in DOMAIN alerts : validateAlert(alerts[a]))
    /\ [][(/\ lastCall' # lastCall
            /\ lastCall'.service \in {"createAlert", "updateAlert"}
            /\ ~lastCall'.ok)
           => (alerts' = alerts /\ alertMonitors' = alertMonitors)]_vars

\* C17 witness: an updateAlert call on a stored alert with a running timer
\* has thrown
RejectedUpdate ==
    /\ lastCall.service = "updateAlert"
    /\ ~lastCall.ok
    /\ lastCall.cost \in DOMAIN alerts
    /\ lastCall.cost \in DOMAIN alertMonitors

\* C7 as stated: no two checkAlert calls in progress belong to the same alert
AlertNoReentrantCheck ==
    \A i, j \in DOMAIN alertChecks :
        i # j => alertChecks[i].alertId # alertChecks[j].alertId

----------------------------------------------------------------------------
(* Claims about the rate limiter *)

\* C3: the used count of the twitter limit stays within 0 .. requests, so
\* the remaining budget requests - current never goes below 0
RateLimitNonNegative ==
    /\ rateLimits.twitter.current >= 0
    /\ rateLimits.twitter.current <= rateLimits.twitter.requests

\* C3 witness: the budget is used up and a call has been denied
RateLimitExhausted ==
    /\ rateLimits.twitter.current = rateLimits.twitter.requests
    /\ lastCall.service = "twitter"
    /\ lastCall.cost > 0
    /\ ~lastCall.ok

\* the limit as the window check of the last call left it, stated from the
\* claim: an expired window gives the full budget and a window from now
AfterWindowCheck ==
    LET pre == lastCall.pre.twitter
    IN  IF lastCall.at > pre.resetTime
        THEN [requests |-> pre.requests, window |-> pre.window,
              current |-> 0, resetTime |-> lastCall.at + pre.window]
        ELSE pre

CheckKeepsUpdateAndDelete ==
    [][\A i \in DOMAIN alertChecks :
          alertChecks' = DropCheck(i) =>
              LET alertId == alertChecks[i].alertId
              IN  IF alertId \in DOMAIN alerts
                  THEN alertId \in DOMAIN alerts'
                       /\ alerts'[alertId] = alerts[alertId]
                  ELSE alertId \notin DOMAIN alerts']_vars

\* the monitor is in the queue, in the batch in progress, or about to be put
\* in the queue by a createMonitor or toggleMonitor call that has not
\* returned yet
Scheduled(monitorId) ==
    \/ monitorId \in Range(monitoringQueue)
    \/ isProcessing /\ \E k \in DOMAIN passes : passes[k].id = monitorId
    \/ \E k \in DOMAIN pending :
          pending[k].op = "add" /\ pending[k].id = monitorId

\* C35 as stated: every registered monitor with isActive = true is in the
\* queue or in the batch in progress
ActiveMonitorsScheduled ==
    \A monitorId \in DOMAIN activeMonitors :
        activeMonitors[monitorId].isActive => Scheduled(monitorId)

\* C36 as stated: the queue holds no id twice and no id of a monitor that is
\* not registered
QueueWellFormed ==
    /\ \A i, j \in DOMAIN monitoringQueue :
           i # j => monitoringQueue[i] # monitoringQueue[j]
    /\ Range(monitoringQueue) \subseteq DOMAIN activeMonitors

HonestDeliveredFlag ==
    \A id \in DOMAIN notifications :
        notifications[id].delivered => notifications[id].sent

====
